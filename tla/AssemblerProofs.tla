--------------------------- MODULE AssemblerProofs ---------------------------
(***************************************************************************)
(* Both passes of the assembler agree on every address, no line of a       *)
(* source is lost between them, and every branch, jump and la leads where  *)
(* its operand says, for every set of source programs.                     *)
(*                                                                         *)
(* The last of these decodes what was assembled, so that it needs what the *)
(* decoder gives back; the variables that come with it are not used here.  *)
(***************************************************************************)
EXTENDS Assembler, Rv32EncodingProofs

LEMMA Concatenation ==
  ASSUME NEW s, NEW t, IsSequence(s), IsSequence(t)
  PROVE  /\ IsSequence(s \o t)
         /\ Len(s) \in Nat /\ DOMAIN s = 1..Len(s)
         /\ Len(t) \in Nat /\ DOMAIN t = 1..Len(t)
         /\ DOMAIN (s \o t) = 1..Len(s) + Len(t)
         /\ \A i \in 1..Len(s) : (s \o t)[i] = s[i]
         /\ \A i \in 1..Len(t) : (s \o t)[Len(s) + i] = t[i]
<1> DEFINE U == Range(s) \cup Range(t)
<1>1. s \in Seq(U) /\ t \in Seq(U)
  BY DEF IsSequence, Range
<1>2. /\ s \o t \in Seq(U)
      /\ Len(s) \in Nat /\ DOMAIN s = 1..Len(s)
      /\ Len(t) \in Nat /\ DOMAIN t = 1..Len(t)
      /\ Len(s \o t) = Len(s) + Len(t)
  BY <1>1
<1>3. DOMAIN (s \o t) = 1..Len(s) + Len(t)
  BY <1>2
<1>4. /\ \A i \in 1..Len(s) : (s \o t)[i] = s[i]
      /\ \A i \in 1..Len(t) : (s \o t)[Len(s) + i] = t[i]
  BY <1>1, <1>2
<1>5. IsSequence(s \o t)
  BY <1>2, Narrowed
<1> QED
  BY <1>2, <1>3, <1>4, <1>5

LEMMA Singleton ==
  ASSUME NEW e
  PROVE  IsSequence(<<e>>) /\ Len(<<e>>) = 1 /\ DOMAIN <<e>> = 1..1 /\ <<e>>[1] = e
BY DEF IsSequence, Range

-----------------------------------------------------------------------------
(* What a line reserves is a number of bytes.                              *)
Sized(l) == Size(l.op, l.operands) \in Nat

CountersInv ==
  /\ phase \in {"expand", "layout", "emit", "written", "layout_failed", "emit_failed", "aborted"}
  /\ at \in Nat \ {0} /\ pc \in Nat
  /\ source \in Seq(Line)

ExpandedInv == IsSequence(expanded) /\ \A k \in DOMAIN expanded : Sized(expanded[k])

(* An item lies below a limit, the location counter in the end, and has    *)
(* the size that its bytes will have.                                      *)
ItemInv(item, limit) ==
  /\ item.address \in Nat /\ item.size \in Nat /\ item.address + item.size <= limit
  /\ item.kind \in {"label", "org"} => item.size = 0
  /\ item.kind = "instruction" => item.size = (IF item.op = "la" THEN 8 ELSE 4)
  /\ item.kind \in {"label", "org", "directive", "instruction"}

Laid(s, limit) ==
  /\ IsSequence(s)
  /\ \A i \in DOMAIN s : ItemInv(s[i], limit)
  /\ \A i, j \in DOMAIN s : i < j => s[i].address + s[i].size <= s[j].address

ItemsInv == Laid(items, pc)

(* The image is a record from the first; it is as long as the counter got, *)
(* and its bytes are those of the items that have been through.            *)
Filled == UNION {Reserved(i) : i \in {j \in 1..at - 1 : ~Faulty(j)}}
ImageInv ==
  /\ image = [size |-> image.size, bytes |-> image.bytes]
  /\ phase \in {"expand", "layout"} => DOMAIN image.bytes = {}
  /\ phase = "emit" => image.size = pc
  /\ phase = "written" => image.size \in pc..pc + 3 /\ image.size % 4 = 0
  /\ Emitting => DOMAIN image.bytes = Filled

IInv == CountersInv /\ ExpandedInv /\ ItemsInv /\ ImageInv

-----------------------------------------------------------------------------
(* Data, once there is any, has the size that was reserved for it.         *)
LEMMA DataFills ==
  ASSUME NEW item, NEW symbols, NEW limit, ItemInv(item, limit), NEW d \in Data(item, symbols),
         item.kind \in {"directive", "instruction"}
  PROVE  DOMAIN d = 0..item.size - 1
<1>1. CASE item.kind = "directive"
  BY <1>1 DEF Data
<1>2. CASE item.kind = "instruction" /\ item.op = "la"
  <2>1. item.size = 8 /\ d \in encode_la(item.operands, item.address, symbols)
    BY <1>2 DEF Data, ItemInv
  <2>2. DOMAIN d = 0..7
    BY <2>1 DEF encode_la
  <2> QED BY <2>1, <2>2
<1>3. CASE item.kind = "instruction" /\ item.op # "la"
  <2>1. item.size = 4 /\ \E w \in Words(item.op, item.operands, item.address, symbols) : d = Little4(w)
    BY <1>3 DEF Data, ItemInv
  <2>2. DOMAIN d = 0..3
    BY <2>1 DEF Little4
  <2> QED BY <2>1, <2>2
<1> QED BY <1>1, <1>2, <1>3

(* Written in place, it leaves the length of the image alone.              *)
LEMMA WrittenInPlace ==
  ASSUME NEW old, NEW d, NEW a \in Nat, NEW n \in Nat, DOMAIN d = 0..n - 1,
         old.size \in Nat, a + n <= old.size
  PROVE  /\ Written(old, a, d).size = old.size
         /\ DOMAIN Written(old, a, d).bytes = (DOMAIN old.bytes) \cup (a..a + n - 1)
         /\ Written(old, a, d) = [size |-> Written(old, a, d).size,
                                  bytes |-> Written(old, a, d).bytes]
<1>1. Length(d) = n
  <2>1. CASE n = 0
    BY <2>1 DEF Length
  <2>2. CASE n > 0
    <3>1. Max(0..n - 1) = n - 1
      <4>1. n - 1 \in 0..n - 1 /\ \A y \in 0..n - 1 : n - 1 >= y
        BY <2>2
      <4>2. \A x \in 0..n - 1 : (\A y \in 0..n - 1 : x >= y) => x = n - 1
        BY <2>2
      <4> QED BY <4>1, <4>2 DEF Max
    <3>2. DOMAIN d # {}
      BY <2>2
    <3> QED BY <3>1, <3>2 DEF Length
  <2> QED BY <2>1, <2>2
<1>2. Max({old.size, a + n}) = old.size
  <2>1. \A x \in {old.size, a + n} : (\A y \in {old.size, a + n} : x >= y) => x = old.size
    OBVIOUS
  <2>2. \A y \in {old.size, a + n} : old.size >= y
    OBVIOUS
  <2> QED BY <2>1, <2>2 DEF Max
<1>3. {a + k : k \in DOMAIN d} = a..a + n - 1
  <2>1. \A b \in a..a + n - 1 : b - a \in 0..n - 1 /\ b = a + (b - a)
    OBVIOUS
  <2>2. \A k \in 0..n - 1 : a + k \in a..a + n - 1
    OBVIOUS
  <2> QED BY <2>1, <2>2
<1> QED
  BY <1>1, <1>2, <1>3 DEF Written

-----------------------------------------------------------------------------
(* Expansion.                                                              *)

LEMMA NatSized ==
  ASSUME NEW op, NEW operands, op \in Directives => operands \in Seq(Operand)
  PROVE  Size(op, operands) \in Nat
<1>1. CASE op \notin Directives
  BY <1>1 DEF Size
<1>2. CASE op \in DOMAIN WIDTH
  <2>1. WIDTH[op] \in Nat /\ op \in Directives
    BY <1>2 DEF WIDTH, Directives
  <2>2. Len(operands) \in Nat
    BY <2>1
  <2> QED BY <1>2, <2>1, <2>2 DEF Size, directive_reservation
<1>3. CASE op \in Directives /\ op \notin DOMAIN WIDTH
  <2> DEFINE counts == IF op = ".space" /\ Len(operands) = 1 THEN Sizes(operands[1]) ELSE {}
  <2>1. counts # {} => (CHOOSE n \in counts : TRUE) \in Nat
    <3>1. MAX_IMAGE_BYTES + 1 \in Nat
      BY AssemblerAssumption
    <3>2. counts \subseteq Nat
      BY <3>1 DEF Sizes
    <3> HIDE DEF counts
    <3> QED BY <3>2
  <2>2. Size(op, operands) = IF counts = {} THEN 0 ELSE CHOOSE n \in counts : TRUE
    BY <1>3 DEF Size, directive_reservation
  <2> QED BY <2>1, <2>2
<1> QED BY <1>1, <1>2, <1>3

LEMMA PlainIsNoDirective ==
  ASSUME NEW op \in DOMAIN Arity \ {"li"}, NEW a
  PROVE  Plain(op, a).op \notin Directives
BY DEF Plain, Arity, Statement, Directives, WIDTH

(* A sequence of statements with their sizes.                              *)
Expansion(s) == IsSequence(s) /\ \A k \in DOMAIN s : Sized(s[k])

LEMMA ExpansionOfOne ==
  ASSUME NEW s, Sized(s)
  PROVE  Expansion(<<s>>)
BY Singleton DEF Expansion

LEMMA ExpansionOfTwo ==
  ASSUME NEW s, NEW t, Sized(s), Sized(t)
  PROVE  Expansion(<<s, t>>)
<1>1. IsSequence(<<s, t>>) /\ DOMAIN <<s, t>> = 1..2
  BY DEF IsSequence, Range
<1> QED BY <1>1 DEF Expansion

(* li is one instruction or two.                                           *)
LEMMA LoadImmediateForms ==
  ASSUME NEW rd, NEW p
  PROVE  \/ LoadImmediate(rd, p) = <<Statement("addi", <<rd, x0, Num(p[1] * 4096 + p[2])>>)>>
         \/ LoadImmediate(rd, p) = <<Statement("lui", <<rd, Num(Split(p).upper)>>),
                                     Statement("addi", <<rd, rd, Num(Split(p).lower)>>)>>
<1> DEFINE short == p \in {Pair(n) : n \in -2048..2047}
           one == <<Statement("addi", <<rd, x0, Num(p[1] * 4096 + p[2])>>)>>
           two == <<Statement("lui", <<rd, Num(Split(p).upper)>>),
                    Statement("addi", <<rd, rd, Num(Split(p).lower)>>)>>
<1>1. LoadImmediate(rd, p) = IF short THEN one ELSE two
  BY ZenonT(60) DEF LoadImmediate
<1>2. LoadImmediate(rd, p) = one \/ LoadImmediate(rd, p) = two
  <2> HIDE DEF short, one, two
  <2> QED BY <1>1
<1> QED BY <1>2, Zenon

LEMMA LoadImmediateSized ==
  ASSUME NEW rd, NEW p
  PROVE  Expansion(LoadImmediate(rd, p))
<1> DEFINE short == Statement("addi", <<rd, x0, Num(p[1] * 4096 + p[2])>>)
           upper == Statement("lui", <<rd, Num(Split(p).upper)>>)
           lower == Statement("addi", <<rd, rd, Num(Split(p).lower)>>)
<1>1. Sized(short) /\ Sized(upper) /\ Sized(lower)
  BY NatSized DEF Sized, Statement, Directives, WIDTH
<1>2. LoadImmediate(rd, p) = <<short>> \/ LoadImmediate(rd, p) = <<upper, lower>>
  BY LoadImmediateForms
<1> HIDE DEF short, upper, lower
<1>3. CASE LoadImmediate(rd, p) = <<short>>
  BY <1>1, <1>3, ExpansionOfOne
<1>4. CASE LoadImmediate(rd, p) = <<upper, lower>>
  BY <1>1, <1>4, ExpansionOfTwo
<1> QED BY <1>2, <1>3, <1>4

LEMMA ReplacementsSized ==
  ASSUME NEW l \in Line, NEW s \in Replacements(l)
  PROVE  Expansion(s)
<1>1. CASE ~IsPseudo(l)
  <2>1. s = <<Statement(l.op, l.operands)>>
    BY <1>1 DEF Replacements
  <2>2. Sized(Statement(l.op, l.operands))
    BY NatSized DEF Sized, Statement, Line
  <2> QED BY <2>1, <2>2, ExpansionOfOne
<1>2. CASE IsPseudo(l) /\ l.op = "li"
  <2>1. PICK p : s = LoadImmediate(l.operands[1], p)
    BY <1>2 DEF Replacements
  <2> QED BY <2>1, LoadImmediateSized
<1>3. CASE IsPseudo(l) /\ l.op # "li"
  <2>1. s = <<Plain(l.op, l.operands)>>
    BY <1>3 DEF Replacements
  <2>2. Plain(l.op, l.operands).op \notin Directives
    BY <1>3, PlainIsNoDirective DEF IsPseudo
  <2>3. Sized(Plain(l.op, l.operands))
    BY <2>2, NatSized DEF Sized
  <2> QED BY <2>1, <2>3, ExpansionOfOne
<1> QED BY <1>1, <1>2, <1>3

LEMMA NumberedSized ==
  ASSUME NEW n, NEW label, NEW s, Expansion(s)
  PROVE  Expansion(Numbered(n, label, s))
<1> DEFINE t == Numbered(n, label, s)
<1>1. Len(s) \in Nat /\ DOMAIN s = 1..Len(s)
  BY DEF Expansion, IsSequence
<1>2. DOMAIN t = 1..Len(s) /\ \A k \in 1..Len(s) : t[k].op = s[k].op /\ t[k].operands = s[k].operands
  BY <1>1 DEF Numbered
<1>3. IsSequence(t)
  <2>1. t \in [1..Len(s) -> Range(t)]
    BY <1>1, <1>2 DEF Numbered, Range
  <2> HIDE DEF t
  <2> QED BY <1>1, <2>1 DEF IsSequence
<1>4. \A k \in DOMAIN t : Sized(t[k])
  BY <1>1, <1>2 DEF Expansion, Sized
<1> QED BY <1>3, <1>4 DEF Expansion

LEMMA ExpandLineInv == IInv /\ ExpandLine => IInv'
<1> SUFFICES ASSUME IInv, ExpandLine PROVE IInv'
  OBVIOUS
<1> USE DEF IInv
<1>1. at \in Nat \ {0} /\ at <= Len(source) /\ source \in Seq(Line) /\ phase = "expand"
  BY DEF ExpandLine, CountersInv
<1>2. source[at] \in Line
  BY <1>1
<1>3. CountersInv'
  BY DEF CountersInv, ExpandLine
<1>4. ExpandedInv'
  <2>1. CASE UNCHANGED expanded
    BY <2>1 DEF ExpandedInv, Sized
  <2>2. CASE \E s \in Replacements(source[at]) :
               expanded' = expanded \o Numbered(at, source[at].label, s)
    <3>1. PICK s \in Replacements(source[at]) :
               expanded' = expanded \o Numbered(at, source[at].label, s)
      BY <2>2
    <3> DEFINE t == Numbered(at, source[at].label, s)
    <3>2. Expansion(t)
      BY <1>2, ReplacementsSized, NumberedSized
    <3> HIDE DEF t
    <3>3. Expansion(expanded)
      BY DEF ExpandedInv, Expansion
    <3>4. Expansion(expanded \o t)
      <4>1. IsSequence(expanded) /\ IsSequence(t)
        BY <3>2, <3>3 DEF Expansion
      <4>2. ASSUME NEW k \in DOMAIN (expanded \o t)
            PROVE  Sized((expanded \o t)[k])
        <5>1. CASE k \in 1..Len(expanded)
          BY <3>3, <4>1, <5>1, Concatenation DEF Expansion
        <5>2. CASE k \in Len(expanded) + 1..Len(expanded) + Len(t)
          <6>1. Len(expanded) \in Nat /\ Len(t) \in Nat /\ DOMAIN t = 1..Len(t)
            BY <4>1, Concatenation
          <6>2. k - Len(expanded) \in 1..Len(t) /\ k = Len(expanded) + (k - Len(expanded))
            BY <5>2, <6>1
          <6>3. (expanded \o t)[k] = t[k - Len(expanded)]
            BY <4>1, <6>2, Concatenation
          <6> QED BY <3>2, <6>1, <6>2, <6>3 DEF Expansion
        <5>3. k \in 1..Len(expanded) + Len(t) /\ Len(expanded) \in Nat /\ Len(t) \in Nat
          BY <4>1, Concatenation
        <5> QED BY <5>1, <5>2, <5>3
      <4> QED BY <4>1, <4>2, Concatenation DEF Expansion
    <3> QED BY <3>1, <3>4 DEF ExpandedInv, Expansion, Sized, t
  <2> QED BY <2>1, <2>2 DEF ExpandLine
<1>5. ItemsInv'
  BY DEF ItemsInv, ExpandLine
<1>6. ImageInv'
  BY <1>1 DEF ImageInv, ExpandLine, Emitting
<1> QED BY <1>3, <1>4, <1>5, <1>6

-----------------------------------------------------------------------------
(* Layout.                                                                 *)

(* Items laid from p on follow those that end at p or below.               *)
LEMMA LaidTogether ==
  ASSUME NEW s, NEW t, NEW p \in Nat, NEW q \in Nat, p <= q, Laid(s, p), Laid(t, q),
         \A i \in DOMAIN t : p <= t[i].address
  PROVE  Laid(s \o t, q)
<1> DEFINE n == Len(s)
           m == Len(t)
           r == s \o t
<1>1. IsSequence(s) /\ IsSequence(t)
  BY DEF Laid
<1>2. /\ IsSequence(r) /\ n \in Nat /\ m \in Nat
      /\ DOMAIN s = 1..n /\ DOMAIN t = 1..m /\ DOMAIN r = 1..n + m
      /\ \A i \in 1..n : r[i] = s[i]
      /\ \A i \in 1..m : r[n + i] = t[i]
  BY <1>1, Concatenation
<1> HIDE DEF n, m, r
<1>3. \A i \in n + 1..n + m : i - n \in 1..m /\ r[i] = t[i - n]
  <2> TAKE i \in n + 1..n + m
  <2>1. i - n \in 1..m /\ n + (i - n) = i
    BY <1>2
  <2> QED BY <1>2, <2>1
<1>4. \A i \in 1..n + m : i \in 1..n \/ i \in n + 1..n + m
  BY <1>2
<1>5. \A i \in 1..n : ItemInv(r[i], p)
  BY <1>2 DEF Laid
<1>6. \A i \in n + 1..n + m : ItemInv(r[i], q) /\ p <= r[i].address
  BY <1>2, <1>3 DEF Laid
<1>7. \A i \in 1..n + m : ItemInv(r[i], q)
  BY <1>4, <1>5, <1>6 DEF ItemInv
<1>8. ASSUME NEW i \in 1..n + m, NEW j \in 1..n + m, i < j
      PROVE  r[i].address + r[i].size <= r[j].address
  <2>1. CASE i \in 1..n /\ j \in 1..n
    BY <1>2, <1>8, <2>1 DEF Laid
  <2>2. CASE i \in 1..n /\ j \in n + 1..n + m
    <3>1. /\ r[i].address + r[i].size <= p /\ p <= r[j].address
          /\ r[i].address \in Nat /\ r[i].size \in Nat /\ r[j].address \in Nat
      BY <1>5, <1>6, <2>2 DEF ItemInv
    <3> QED BY <3>1
  <2>3. CASE i \in n + 1..n + m /\ j \in n + 1..n + m
    <3>1. i - n \in 1..m /\ j - n \in 1..m /\ i - n < j - n
      BY <1>2, <1>8, <2>3
    <3>2. t[i - n].address + t[i - n].size <= t[j - n].address
      BY <1>2, <3>1 DEF Laid
    <3> QED BY <1>3, <2>3, <3>2
  <2> QED BY <1>2, <1>4, <1>8, <2>1, <2>2, <2>3
<1> QED BY <1>2, <1>7, <1>8 DEF Laid, r

LEMMA LaidOne ==
  ASSUME NEW item, NEW limit, ItemInv(item, limit)
  PROVE  Laid(<<item>>, limit)
BY Singleton DEF Laid

LEMMA LabelsLaid ==
  ASSUME NEW l, ItemsInv, pc \in Nat
  PROVE  Laid(items \o LabelItems(l), pc)
<1>1. CASE Labels(l)
  <2> DEFINE label == Item("label", [l EXCEPT !.op = ""], 0)
  <2>1. ItemInv(label, pc) /\ label.address = pc
    BY DEF Item, ItemInv
  <2>2. LabelItems(l) = <<label>>
    BY <1>1, Zenon DEF LabelItems
  <2> HIDE DEF label
  <2>3. Laid(<<label>>, pc) /\ \A i \in DOMAIN <<label>> : pc <= <<label>>[i].address
    BY <2>1, LaidOne, Singleton
  <2> QED BY <2>2, <2>3, LaidTogether DEF ItemsInv
<1>2. CASE ~Labels(l)
  <2>1. LabelItems(l) = <<>>
    BY <1>2, Zenon DEF LabelItems
  <2>2. items \o <<>> = items
    BY DEF ItemsInv, Laid, IsSequence
  <2> QED BY <2>1, <2>2 DEF ItemsInv
<1> QED BY <1>1, <1>2

LEMMA StatementLaid ==
  ASSUME NEW l, ItemsInv, pc \in Nat, NEW kind, NEW size \in Nat, NEW limit \in Nat,
         pc + size <= limit,
         kind \in {"org", "directive", "instruction"},
         kind = "org" => size = 0,
         kind = "instruction" => size = (IF l.op = "la" THEN 8 ELSE 4)
  PROVE  Laid(items \o LabelItems(l) \o <<Item(kind, l, size)>>, limit)
<1> DEFINE item == Item(kind, l, size)
           before == items \o LabelItems(l)
<1>1. ItemInv(item, limit) /\ item.address = pc
  BY DEF Item, ItemInv
<1>2. Laid(before, pc)
  BY LabelsLaid
<1> HIDE DEF item, before
<1>3. Laid(<<item>>, limit) /\ \A i \in DOMAIN <<item>> : pc <= <<item>>[i].address
  BY <1>1, LaidOne, Singleton
<1>4. Laid(before \o <<item>>, limit)
  BY <1>2, <1>3, LaidTogether
<1> QED BY <1>4 DEF item, before

(* What every line of the layout leaves to be shown.                       *)
LEMMA LayLineInv ==
  ASSUME IInv, LayLine, pc' \in Nat, ItemsInv'
  PROVE  IInv'
<1>1. CountersInv'
  BY DEF IInv, CountersInv, LayLine
<1>2. ExpandedInv'
  BY DEF IInv, ExpandedInv, LayLine, Sized
<1>3. ImageInv'
  BY DEF IInv, ImageInv, LayLine, Emitting
<1> QED BY <1>1, <1>2, <1>3 DEF IInv

LEMMA LineLaidIsSized ==
  ASSUME IInv, LayLine
  PROVE  Sized(expanded[at])
<1>1. at \in DOMAIN expanded
  BY DEF IInv, CountersInv, ExpandedInv, IsSequence, LayLine
<1> QED BY <1>1 DEF IInv, ExpandedInv

LEMMA LayBlankInv == IInv /\ LayBlank => IInv'
<1> SUFFICES ASSUME IInv, LayBlank PROVE IInv'
  OBVIOUS
<1>1. LayLine /\ pc' = pc /\ pc \in Nat /\ ItemsInv /\ items' = items \o LabelItems(expanded[at])
  BY DEF LayBlank, IInv, CountersInv
<1>2. ItemsInv'
  BY <1>1, LabelsLaid DEF ItemsInv
<1> QED BY <1>1, <1>2, LayLineInv

LEMMA LayBareColonInv == IInv /\ LayBareColon => IInv'
BY DEF IInv, CountersInv, ExpandedInv, ItemsInv, ImageInv, Sized, Emitting, LayBareColon

LEMMA LayOrgInv == IInv /\ LayOrg => IInv'
<1> SUFFICES ASSUME IInv, LayOrg PROVE IInv'
  OBVIOUS
<1> DEFINE l == expanded[at]
<1>1. LayLine /\ pc \in Nat /\ ItemsInv
  BY DEF LayOrg, IInv, CountersInv
<1>2. pc' \in Nat /\ pc <= pc'
  <2>1. \A n \in Origin(l.operands) : n \in pc..MAX_IMAGE_BYTES
    BY DEF Origin
  <2> HIDE DEF l
  <2>2. pc' \in Origin(l.operands) \/ pc' = pc
    BY DEF LayOrg, l
  <2> QED BY <1>1, <2>1, <2>2, AssemblerAssumption
<1>3. items' = items \o LabelItems(l) \o <<Item("org", l, 0)>>
  BY DEF LayOrg
<1>4. ItemsInv'
  <2> HIDE DEF l
  <2>1. Laid(items \o LabelItems(l) \o <<Item("org", l, 0)>>, pc')
    BY <1>1, <1>2, StatementLaid
  <2> QED BY <1>3, <2>1 DEF ItemsInv
<1> QED BY <1>1, <1>2, <1>4, LayLineInv

LEMMA LayStatementInv == IInv /\ LayStatement => IInv'
<1> SUFFICES ASSUME IInv, LayStatement PROVE IInv'
  OBVIOUS
<1> DEFINE l == expanded[at]
           kind == IF l.op \in Directives THEN "directive" ELSE "instruction"
           size == Size(l.op, l.operands)
<1>1. LayLine /\ pc \in Nat /\ ItemsInv
  BY DEF LayStatement, IInv, CountersInv
<1>2. size \in Nat
  BY <1>1, LineLaidIsSized DEF Sized
<1>3. pc' = pc + size /\ items' = items \o LabelItems(l) \o <<Item(kind, l, size)>>
  BY DEF LayStatement
<1>4. /\ kind \in {"org", "directive", "instruction"} /\ kind # "org"
      /\ kind = "instruction" => size = (IF l.op = "la" THEN 8 ELSE 4)
  BY DEF Size
<1> HIDE DEF l, kind, size
<1>5. Laid(items \o LabelItems(l) \o <<Item(kind, l, size)>>, pc')
  BY <1>1, <1>2, <1>3, <1>4, StatementLaid
<1> QED BY <1>1, <1>2, <1>3, <1>5, LayLineInv DEF ItemsInv

-----------------------------------------------------------------------------
(* Emission.                                                               *)

LEMMA EndLayoutInv == IInv /\ EndLayout => IInv'
<1> SUFFICES ASSUME IInv, EndLayout PROVE IInv'
  OBVIOUS
<1>1. CountersInv' /\ ExpandedInv' /\ ItemsInv'
  BY DEF IInv, CountersInv, ExpandedInv, ItemsInv, Sized, EndLayout
<1>2. ImageInv'
  <2>1. at' = 1 /\ DOMAIN image.bytes = {} /\ image = [size |-> image.size, bytes |-> image.bytes]
    BY DEF IInv, ImageInv, EndLayout
  <2>2. Filled' = {}
    BY <2>1 DEF Filled
  <2>3. CASE errors = <<>>
    <3>1. phase' = "emit" /\ image'.size = pc' /\ image'.bytes = image.bytes
          /\ image' = [size |-> image'.size, bytes |-> image'.bytes]
      BY <2>1, <2>3 DEF EndLayout
    <3> QED BY <2>1, <2>2, <3>1 DEF ImageInv, Emitting
  <2>4. CASE errors # <<>>
    BY <2>1, <2>4 DEF EndLayout, ImageInv, Emitting
  <2> QED BY <2>3, <2>4
<1> QED BY <1>1, <1>2 DEF IInv

(* What one more item adds.                                                *)
LEMMA FilledStep ==
  ASSUME at \in Nat \ {0}, at' = at + 1, UNCHANGED <<items, symbol_table>>
  PROVE  Filled' = Filled \cup (IF Faulty(at) THEN {} ELSE Reserved(at))
<1>1. \A i : Reserved(i)' = Reserved(i) /\ (Faulty(i)' <=> Faulty(i))
  BY DEF Reserved, Faulty, Emits
<1>2. {j \in 1..at' - 1 : ~Faulty(j)'}
        = {j \in 1..at - 1 : ~Faulty(j)} \cup (IF Faulty(at) THEN {} ELSE {at})
  BY <1>1
<1> QED BY <1>1, <1>2 DEF Filled

(* What every step of the pass leaves to be shown.                         *)
LEMMA EmissionInv ==
  ASSUME IInv, phase = "emit", at' = at + 1, ImageInv',
         UNCHANGED <<source, phase, expanded, pc, items, symbol_table>>
  PROVE  IInv'
BY DEF IInv, CountersInv, ExpandedInv, ItemsInv, Sized

(* The image stays when the item reserves nothing, or is in error.         *)
LEMMA ImageStays ==
  ASSUME IInv, phase = "emit", at' = at + 1, Faulty(at) \/ Reserved(at) = {},
         UNCHANGED <<source, phase, expanded, pc, items, symbol_table, image>>
  PROVE  IInv'
<1>1. Filled' = Filled
  BY FilledStep DEF IInv, CountersInv
<1>2. ImageInv'
  BY <1>1 DEF IInv, ImageInv, Emitting
<1> QED BY <1>2, EmissionInv

LEMMA ItemAt ==
  ASSUME IInv, phase = "emit", at <= Len(items)
  PROVE  at \in DOMAIN items /\ ItemInv(items[at], pc)
BY DEF IInv, CountersInv, ItemsInv, Laid, IsSequence

LEMMA EmitNothingInv == IInv /\ EmitNothing => IInv'
<1> SUFFICES ASSUME IInv, EmitNothing PROVE IInv'
  OBVIOUS
<1>1. items[at].size = 0 /\ items[at].address \in Nat
  BY ItemAt DEF EmitNothing, ItemInv
<1>2. Reserved(at) = {}
  BY <1>1 DEF Reserved
<1> QED BY <1>2, ImageStays DEF EmitNothing

LEMMA EmitErrorInv == IInv /\ EmitError => IInv'
<1> SUFFICES ASSUME IInv, EmitError PROVE IInv'
  OBVIOUS
<1>1. Faulty(at)
  BY DEF EmitError, Faulty, Emits
<1> QED BY <1>1, ImageStays DEF EmitError

LEMMA EmitDataInv == IInv /\ EmitData => IInv'
<1> SUFFICES ASSUME IInv, EmitData PROVE IInv'
  OBVIOUS
<1>1. /\ phase = "emit" /\ at' = at + 1 /\ at \in Nat \ {0} /\ at <= Len(items)
      /\ items[at].kind \in {"directive", "instruction"}
      /\ UNCHANGED <<source, phase, expanded, pc, items, symbol_table>>
  BY DEF EmitData, IInv, CountersInv
<1>2. PICK d \in Data(items[at], symbol_table) : image' = Written(image, items[at].address, d)
  BY DEF EmitData
<1>3. ItemInv(items[at], pc)
  BY <1>1, ItemAt
<1>4. DOMAIN d = 0..items[at].size - 1
  BY <1>1, <1>3, DataFills
<1>5. /\ items[at].address \in Nat /\ items[at].size \in Nat
      /\ image.size = pc /\ pc \in Nat /\ items[at].address + items[at].size <= image.size
  BY <1>1, <1>3 DEF ItemInv, IInv, ImageInv, CountersInv
<1>6. /\ image'.size = image.size
      /\ DOMAIN image'.bytes = (DOMAIN image.bytes) \cup Reserved(at)
      /\ image' = [size |-> image'.size, bytes |-> image'.bytes]
  BY <1>2, <1>4, <1>5, WrittenInPlace DEF Reserved
<1>7. ~Faulty(at)
  BY <1>2 DEF Faulty
<1>8. Filled' = Filled \cup Reserved(at)
  BY <1>1, <1>7, FilledStep
<1>9. ImageInv'
  BY <1>1, <1>5, <1>6, <1>8 DEF IInv, ImageInv, Emitting
<1> QED BY <1>1, <1>9, EmissionInv

LEMMA FinishInv == IInv /\ Finish => IInv'
<1> SUFFICES ASSUME IInv, Finish PROVE IInv'
  OBVIOUS
<1>1. CountersInv' /\ ExpandedInv' /\ ItemsInv'
  BY DEF IInv, CountersInv, ExpandedInv, ItemsInv, Sized, Finish
<1>2. ImageInv'
  <2>1. /\ image.size = pc /\ pc \in Nat /\ DOMAIN image.bytes = Filled
        /\ image = [size |-> image.size, bytes |-> image.bytes]
    BY DEF IInv, ImageInv, CountersInv, Finish, Emitting
  <2>2. Filled' = Filled
    BY DEF Filled, Reserved, Faulty, Emits, Finish
  <2>3. 4 * ((pc + 3) \div 4) \in pc..pc + 3 /\ (4 * ((pc + 3) \div 4)) % 4 = 0
    BY <2>1
  <2>4. CASE errors = <<>>
    <3>1. /\ phase' = "written" /\ pc' = pc /\ image'.bytes = image.bytes
          /\ image'.size = 4 * ((pc + 3) \div 4)
          /\ image' = [size |-> image'.size, bytes |-> image'.bytes]
      BY <2>1, <2>4 DEF Finish
    <3> QED BY <2>1, <2>2, <2>3, <3>1 DEF ImageInv
  <2>5. CASE errors # <<>>
    BY <2>1, <2>2, <2>5 DEF Finish, ImageInv
  <2> QED BY <2>4, <2>5
<1> QED BY <1>1, <1>2 DEF IInv

-----------------------------------------------------------------------------
LEMMA InitInv == Init => IInv
<1> SUFFICES ASSUME Init PROVE IInv
  OBVIOUS
<1>1. CountersInv
  BY AssemblerAssumption DEF Init, CountersInv
<1>2. expanded = <<>> /\ items = <<>>
  BY DEF Init
<1>3. IsSequence(<<>>) /\ DOMAIN <<>> = {}
  BY DEF IsSequence
<1>4. ExpandedInv /\ ItemsInv
  BY <1>2, <1>3 DEF ExpandedInv, ItemsInv, Laid
<1>5. ImageInv
  BY DEF Init, ImageInv, Emitting
<1> QED BY <1>1, <1>4, <1>5 DEF IInv

LEMMA StartLayoutInv == IInv /\ StartLayout => IInv'
BY DEF IInv, CountersInv, ExpandedInv, ItemsInv, ImageInv, Sized, Emitting, StartLayout

LEMMA StutterInv == IInv /\ UNCHANGED vars => IInv'
<1> SUFFICES ASSUME IInv, UNCHANGED vars PROVE IInv'
  OBVIOUS
<1>1. Filled' = Filled
  BY DEF Filled, Reserved, Faulty, Emits, vars
<1> QED
  BY <1>1 DEF IInv, CountersInv, ExpandedInv, ItemsInv, ImageInv, Sized, Emitting, vars

(* The invariant of both passes: addresses are laid out in order below the *)
(* location counter, every item has the size of its bytes, and the image   *)
(* has the bytes of the items that went through.                           *)
THEOREM Inductive == Spec => []IInv
<1>1. IInv /\ [Next]_vars => IInv'
  BY ExpandLineInv, StartLayoutInv, LayBlankInv, LayBareColonInv, LayOrgInv,
     LayStatementInv, EndLayoutInv, EmitNothingInv, EmitDataInv, EmitErrorInv, FinishInv, StutterInv DEF Next
<1> QED BY InitInv, <1>1, PTL DEF Spec

(* The second pass fills exactly what the first reserved, whatever the     *)
(* program, and the image is as long as the location counter got.          *)
THEOREM AddressesAgree == Spec => []PassesAgree
<1>1. IInv => PassesAgree
  <2> SUFFICES ASSUME IInv PROVE PassesAgree
    OBVIOUS
  <2>1. \A i \in DOMAIN items : items[i].address + items[i].size <= pc
    BY DEF IInv, ItemsInv, Laid, ItemInv
  <2> QED BY <2>1 DEF IInv, ItemsInv, Laid, ImageInv, Filled, PassesAgree
<1> QED BY Inductive, <1>1, PTL

-----------------------------------------------------------------------------
(* No line of a source is lost: each is followed through expansion, layout *)
(* and emission by its number.                                             *)

LEMMA ElementsOfBoth ==
  ASSUME NEW s, NEW t, IsSequence(s), IsSequence(t)
  PROVE  IsSequence(s \o t) /\ Range(s \o t) = Range(s) \cup Range(t)
<1> DEFINE n == Len(s)
           m == Len(t)
           r == s \o t
<1>1. /\ IsSequence(r) /\ n \in Nat /\ m \in Nat
      /\ DOMAIN s = 1..n /\ DOMAIN t = 1..m /\ DOMAIN r = 1..n + m
      /\ \A i \in 1..n : r[i] = s[i]
      /\ \A i \in 1..m : r[n + i] = t[i]
  BY Concatenation
<1> HIDE DEF n, m, r
<1>2. \A i \in 1..n + m : i \in 1..n \/ (i - n \in 1..m /\ r[i] = t[i - n])
  <2> TAKE i \in 1..n + m
  <2>1. CASE i <= n
    BY <1>1, <2>1
  <2>2. CASE i > n
    <3>1. i - n \in 1..m /\ n + (i - n) = i
      BY <1>1, <2>2
    <3> QED BY <1>1, <3>1
  <2> QED BY <1>1, <2>1, <2>2
<1>3. Range(r) \subseteq Range(s) \cup Range(t)
  BY <1>1, <1>2 DEF Range
<1>4. \A i \in 1..n : i \in 1..n + m
  BY <1>1
<1>5. \A i \in 1..m : n + i \in 1..n + m
  BY <1>1
<1>6. Range(s) \cup Range(t) \subseteq Range(r)
  BY <1>1, <1>4, <1>5 DEF Range
<1> QED BY <1>1, <1>3, <1>6 DEF r

LEMMA ElementsOfOne ==
  ASSUME NEW e
  PROVE  IsSequence(<<e>>) /\ Range(<<e>>) = {e}
BY Singleton DEF Range

LEMMA ElementsOfNone == IsSequence(<<>>) /\ Range(<<>>) = {}
BY DEF IsSequence, Range

LEMMA ElementsOfLonger ==
  ASSUME NEW s, NEW e, IsSequence(s)
  PROVE  IsSequence(Append(s, e)) /\ Range(Append(s, e)) = Range(s) \cup {e}
<1>1. Append(s, e) = s \o <<e>>
  BY DEF IsSequence
<1> QED BY <1>1, ElementsOfBoth, ElementsOfOne

-----------------------------------------------------------------------------
(* A line, or what it was expanded to, that has bytes to emit.             *)
Spoken(l) == l.op \notin {"", ".org"}

Reported == Range(errors)

(* Line n has an expanded line, an item, that has bytes to emit.           *)
Expanded(n) == \E l \in Range(expanded) : l.line = n /\ Spoken(l)
Laying(n) == \E i \in Range(items) : i.line = n /\ i.kind \in {"directive", "instruction"}

Accounted(n) == n \in Reported \/ (Spoken(source[n]) => Expanded(n))

(* What has become of each line so far.                                    *)
LinesInv ==
  /\ phase = "expand" => \A n \in 1..at - 1 : Accounted(n)
  /\ phase = "layout" => \A n \in DOMAIN source : Accounted(n)
  /\ phase = "layout" => \A k \in 1..at - 1 : Spoken(expanded[k]) => Laying(expanded[k].line)
  /\ Emitting => \A n \in DOMAIN source : Spoken(source[n]) => Laying(n)

(* Up to layout errors may be of any kind and end it; those that an image  *)
(* is emitted with are those of the items that have been through.  It is   *)
(* written when there are none.                                            *)
ErrorsInv ==
  /\ IsSequence(errors)
  /\ Emitting => Reported = {items[j].line : j \in {k \in 1..at - 1 : Faulty(k)}}
  /\ Emitting => at <= Len(items) + 1
  /\ phase \in {"written", "emit_failed"} => at > Len(items)
  /\ phase = "written" => Reported = {}

LInv == IInv /\ LinesInv /\ ErrorsInv

-----------------------------------------------------------------------------
LEMMA FirstOfOne ==
  ASSUME NEW s, Spoken(s)
  PROVE  1 \in DOMAIN <<s>> /\ Spoken(<<s>>[1])
BY Singleton

LEMMA FirstOfTwo ==
  ASSUME NEW s, NEW t, Spoken(s)
  PROVE  1 \in DOMAIN <<s, t>> /\ Spoken(<<s, t>>[1])
<1>1. DOMAIN <<s, t>> = 1..2 /\ <<s, t>>[1] = s
  OBVIOUS
<1> QED BY <1>1

LEMMA ReplacementsSpoken ==
  ASSUME NEW l \in Line, NEW s \in Replacements(l), Spoken(l)
  PROVE  1 \in DOMAIN s /\ Spoken(s[1])
<1>1. CASE ~IsPseudo(l)
  <2>1. s = <<Statement(l.op, l.operands)>>
    BY <1>1 DEF Replacements
  <2>2. Spoken(Statement(l.op, l.operands))
    BY DEF Spoken, Statement
  <2> QED BY <2>1, <2>2, FirstOfOne
<1>2. CASE IsPseudo(l) /\ l.op = "li"
  <2>1. PICK p : s = LoadImmediate(l.operands[1], p)
    BY <1>2 DEF Replacements
  <2> DEFINE rd == l.operands[1]
             short == Statement("addi", <<rd, x0, Num(p[1] * 4096 + p[2])>>)
             upper == Statement("lui", <<rd, Num(Split(p).upper)>>)
             lower == Statement("addi", <<rd, rd, Num(Split(p).lower)>>)
  <2>2. Spoken(short) /\ Spoken(upper)
    BY DEF Spoken, Statement
  <2>3. LoadImmediate(rd, p) = <<short>> \/ LoadImmediate(rd, p) = <<upper, lower>>
    BY LoadImmediateForms
  <2> HIDE DEF short, upper, lower
  <2>4. s = <<short>> \/ s = <<upper, lower>>
    BY <2>1, <2>3
  <2>5. CASE s = <<short>>
    BY <2>2, <2>5, FirstOfOne
  <2>6. CASE s = <<upper, lower>>
    BY <2>2, <2>6, FirstOfTwo
  <2> QED BY <2>4, <2>5, <2>6
<1>3. CASE IsPseudo(l) /\ l.op # "li"
  <2>1. s = <<Plain(l.op, l.operands)>>
    BY <1>3 DEF Replacements
  <2>2. l.op \in DOMAIN Arity \ {"li"}
    BY <1>3 DEF IsPseudo
  <2>3. Plain(l.op, l.operands).op \notin {"", ".org"}
    BY <2>2 DEF Plain, Arity, Statement
  <2> QED BY <2>1, <2>3, FirstOfOne DEF Spoken
<1> QED BY <1>1, <1>2, <1>3

LEMMA ExpandLineKeeps == LInv /\ ExpandLine => LInv'
<1> SUFFICES ASSUME LInv, ExpandLine PROVE LInv'
  OBVIOUS
<1> DEFINE l == source[at]
<1>1. /\ phase = "expand" /\ phase' = "expand" /\ at \in Nat \ {0} /\ at' = at + 1
      /\ source' = source /\ l \in Line
      /\ IsSequence(expanded) /\ IsSequence(errors)
  BY DEF LInv, IInv, CountersInv, ExpandedInv, ErrorsInv, ExpandLine
<1>2. IInv'
  BY ExpandLineInv DEF LInv
<1>3. CASE Replacements(l) = {} /\ errors' = Append(errors, at) /\ UNCHANGED expanded
  <2>1. IsSequence(errors') /\ Reported' = Reported \cup {at}
    BY <1>1, <1>3, ElementsOfLonger DEF Reported
  <2>2. \A n \in 1..at' - 1 : Accounted(n)'
    BY <1>1, <1>3, <2>1 DEF LInv, LinesInv, Accounted, Expanded
  <2> QED BY <1>1, <1>2, <2>1, <2>2 DEF LInv, LinesInv, ErrorsInv, Emitting
<1>4. CASE \E s \in Replacements(l) :
             expanded' = expanded \o Numbered(at, l.label, s) /\ UNCHANGED errors
  <2>1. PICK s \in Replacements(l) :
             expanded' = expanded \o Numbered(at, l.label, s) /\ UNCHANGED errors
    BY <1>4
  <2> DEFINE t == Numbered(at, l.label, s)
  <2>2. IsSequence(t)
    BY <1>1, ReplacementsSized, NumberedSized DEF Expansion
  <2>3. ASSUME Spoken(l)
        PROVE  \E e \in Range(t) : e.line = at /\ Spoken(e)
    <3>1. 1 \in DOMAIN s /\ Spoken(s[1])
      BY <1>1, <2>3, ReplacementsSpoken
    <3>2. 1 \in DOMAIN t /\ t[1].line = at /\ Spoken(t[1])
      BY <3>1 DEF Numbered, Spoken
    <3> HIDE DEF t
    <3> QED BY <3>2 DEF Range
  <2> HIDE DEF t
  <2>4. Range(expanded') = Range(expanded) \cup Range(t)
    BY <1>1, <2>1, <2>2, ElementsOfBoth DEF t
  <2>5. Reported' = Reported
    BY <2>1 DEF Reported
  <2>6. \A n \in 1..at - 1 : Accounted(n)'
    BY <1>1, <2>4, <2>5 DEF LInv, LinesInv, Accounted, Expanded
  <2>7. \A n : n = at => Accounted(n)'
    BY <1>1, <2>3, <2>4 DEF Accounted, Expanded
  <2>8. \A n \in 1..at' - 1 : n \in 1..at - 1 \/ n = at
    BY <1>1
  <2>9. \A n \in 1..at' - 1 : Accounted(n)'
    BY <2>6, <2>7, <2>8
  <2> QED BY <1>1, <1>2, <2>1, <2>9 DEF LInv, LinesInv, ErrorsInv, Emitting
<1> QED BY <1>3, <1>4 DEF ExpandLine

LEMMA StartLayoutKeeps == LInv /\ StartLayout => LInv'
<1> SUFFICES ASSUME LInv, StartLayout PROVE LInv'
  OBVIOUS
<1>1. IInv'
  BY StartLayoutInv DEF LInv
<1>2. /\ at > Len(source) /\ at \in Nat /\ at' = 1 /\ source \in Seq(Line)
      /\ phase = "expand" /\ phase' = "layout"
      /\ UNCHANGED <<source, expanded, items, errors>>
  BY DEF LInv, IInv, CountersInv, StartLayout
<1>3. \A n \in DOMAIN source : n \in 1..at - 1
  BY <1>2
<1>4. \A n \in DOMAIN source : Accounted(n)'
  BY <1>2, <1>3 DEF LInv, LinesInv, Accounted, Expanded, Reported
<1> QED BY <1>1, <1>2, <1>4 DEF LInv, LinesInv, ErrorsInv, Emitting

-----------------------------------------------------------------------------
(* Layout.                                                                 *)

LEMMA LabelErrorsGrow ==
  ASSUME NEW l, IsSequence(errors)
  PROVE  /\ IsSequence(errors \o LabelErrors(l))
         /\ Reported \subseteq Range(errors \o LabelErrors(l))
<1>1. LabelErrors(l) = <<l.line>> \/ LabelErrors(l) = <<>>
  BY DEF LabelErrors
<1>2. IsSequence(LabelErrors(l))
  BY <1>1, ElementsOfOne, ElementsOfNone
<1> QED BY <1>2, ElementsOfBoth DEF Reported

LEMMA LabelItemsGrow ==
  ASSUME NEW l, IsSequence(items)
  PROVE  /\ IsSequence(items \o LabelItems(l))
         /\ Range(items) \subseteq Range(items \o LabelItems(l))
<1> DEFINE label == Item("label", [l EXCEPT !.op = ""], 0)
<1>1. LabelItems(l) = <<label>> \/ LabelItems(l) = <<>>
  BY Zenon DEF LabelItems
<1> HIDE DEF label
<1>2. IsSequence(LabelItems(l))
  BY <1>1, ElementsOfOne, ElementsOfNone
<1> QED BY <1>2, ElementsOfBoth

(* What every line of the layout leaves to be shown: nothing is forgotten, *)
(* and a line with bytes to emit has its item.                             *)
LEMMA LayLineKeeps ==
  ASSUME LInv, IInv', LayLine,
         IsSequence(errors'), Reported \subseteq Reported',
         Range(items) \subseteq Range(items)',
         \A n : n = expanded[at].line /\ Spoken(expanded[at]) => Laying(n)'
  PROVE  LInv'
<1>1. phase = "layout" /\ at \in Nat \ {0} /\ at' = at + 1 /\ UNCHANGED <<source, phase, expanded>>
  BY DEF LInv, IInv, CountersInv, LayLine
<1>2. \A n \in DOMAIN source : Accounted(n)'
  BY <1>1 DEF LInv, LinesInv, Accounted, Expanded
<1>3. \A k \in 1..at - 1 : Spoken(expanded[k]) => Laying(expanded[k].line)'
  BY <1>1 DEF LInv, LinesInv, Laying
<1>4. \A k : k = at /\ Spoken(expanded[k]) => Laying(expanded[k].line)'
  BY <1>1
<1>5. \A k \in 1..at' - 1 : k \in 1..at - 1 \/ k = at
  BY <1>1
<1>6. \A k \in 1..at' - 1 : Spoken(expanded[k]) => Laying(expanded[k].line)'
  BY <1>3, <1>4, <1>5
<1> QED BY <1>1, <1>2, <1>6 DEF LInv, LinesInv, ErrorsInv, Emitting

LEMMA LayBlankKeeps == LInv /\ LayBlank => LInv'
<1> SUFFICES ASSUME LInv, LayBlank PROVE LInv'
  OBVIOUS
<1> DEFINE l == expanded[at]
<1>1. LayLine /\ l.op = "" /\ items' = items \o LabelItems(l) /\ errors' = errors \o LabelErrors(l)
  BY DEF LayBlank
<1>2. IsSequence(items) /\ IsSequence(errors)
  BY DEF LInv, IInv, ItemsInv, Laid, ErrorsInv
<1>3. IInv'
  BY LayBlankInv DEF LInv
<1>4. ~Spoken(l)
  BY <1>1 DEF Spoken
<1> HIDE DEF l
<1>5. IsSequence(errors') /\ Reported \subseteq Reported'
  BY <1>1, <1>2, LabelErrorsGrow DEF Reported
<1>6. Range(items) \subseteq Range(items)'
  BY <1>1, <1>2, LabelItemsGrow
<1> QED BY <1>1, <1>3, <1>4, <1>5, <1>6, LayLineKeeps DEF l

(* What ends with an exception is no image.                                *)
LEMMA LayBareColonKeeps == LInv /\ LayBareColon => LInv'
<1> SUFFICES ASSUME LInv, LayBareColon PROVE LInv'
  OBVIOUS
<1>1. IInv'
  BY LayBareColonInv DEF LInv
<1>2. phase' = "aborted" /\ IsSequence(errors')
  BY ElementsOfLonger DEF LayBareColon, LInv, ErrorsInv
<1> QED BY <1>1, <1>2 DEF LInv, LinesInv, ErrorsInv, Emitting

LEMMA LayOrgKeeps == LInv /\ LayOrg => LInv'
<1> SUFFICES ASSUME LInv, LayOrg PROVE LInv'
  OBVIOUS
<1> DEFINE l == expanded[at]
           org == Item("org", l, 0)
<1>1. /\ LayLine /\ l.op = ".org" /\ items' = items \o LabelItems(l) \o <<org>>
      /\ \/ errors' = errors \o LabelErrors(l)
         \/ errors' = errors \o LabelErrors(l) \o <<l.line>>
  BY DEF LayOrg
<1>2. IsSequence(items) /\ IsSequence(errors)
  BY DEF LInv, IInv, ItemsInv, Laid, ErrorsInv
<1>3. IInv'
  BY LayOrgInv DEF LInv
<1>4. ~Spoken(l)
  BY <1>1 DEF Spoken
<1> HIDE DEF l, org
<1>5. IsSequence(errors') /\ Reported \subseteq Reported'
  <2>1. /\ IsSequence(errors \o LabelErrors(l))
        /\ Reported \subseteq Range(errors \o LabelErrors(l))
    BY <1>2, LabelErrorsGrow
  <2> DEFINE longer == errors \o LabelErrors(l)
  <2>2. errors' = longer \/ errors' = longer \o <<l.line>>
    BY <1>1
  <2> HIDE DEF longer
  <2>3. /\ IsSequence(longer \o <<l.line>>)
        /\ Range(longer \o <<l.line>>) = Range(longer) \cup {l.line}
    BY <2>1, ElementsOfBoth, ElementsOfOne DEF longer
  <2>4. IsSequence(longer) /\ Reported \subseteq Range(longer)
    BY <2>1 DEF longer
  <2> QED BY <2>2, <2>3, <2>4 DEF Reported
<1>6. Range(items) \subseteq Range(items)'
  <2>1. /\ IsSequence(items \o LabelItems(l))
        /\ Range(items) \subseteq Range(items \o LabelItems(l))
    BY <1>2, LabelItemsGrow
  <2> QED BY <1>1, <2>1, ElementsOfBoth, ElementsOfOne
<1> QED BY <1>1, <1>3, <1>4, <1>5, <1>6, LayLineKeeps DEF l

LEMMA LayStatementKeeps == LInv /\ LayStatement => LInv'
<1> SUFFICES ASSUME LInv, LayStatement PROVE LInv'
  OBVIOUS
<1> DEFINE l == expanded[at]
           kind == IF l.op \in Directives THEN "directive" ELSE "instruction"
           item == Item(kind, l, Size(l.op, l.operands))
           more == IF pc' > MAX_IMAGE_BYTES THEN <<l.line>> ELSE <<>>
<1>1. /\ LayLine /\ items' = items \o LabelItems(l) \o <<item>>
      /\ errors' = errors \o LabelErrors(l) \o more
  BY DEF LayStatement
<1>2. IsSequence(items) /\ IsSequence(errors)
  BY DEF LInv, IInv, ItemsInv, Laid, ErrorsInv
<1>3. IInv'
  BY LayStatementInv DEF LInv
<1>4. item.line = l.line /\ item.kind \in {"directive", "instruction"}
  BY DEF Item
<1>5. IsSequence(more)
  BY ElementsOfOne, ElementsOfNone
<1> HIDE DEF l, kind, item, more
<1>6. IsSequence(errors') /\ Reported \subseteq Reported'
  <2>1. /\ IsSequence(errors \o LabelErrors(l))
        /\ Reported \subseteq Range(errors \o LabelErrors(l))
    BY <1>2, LabelErrorsGrow
  <2> QED BY <1>1, <1>5, <2>1, ElementsOfBoth DEF Reported
<1>7. Range(items) \cup {item} \subseteq Range(items)'
  <2>1. /\ IsSequence(items \o LabelItems(l))
        /\ Range(items) \subseteq Range(items \o LabelItems(l))
    BY <1>2, LabelItemsGrow
  <2> QED BY <1>1, <2>1, ElementsOfBoth, ElementsOfOne
<1>8. \A n : n = l.line => Laying(n)'
  BY <1>4, <1>7 DEF Laying
<1> QED BY <1>1, <1>3, <1>6, <1>7, <1>8, LayLineKeeps DEF l

LEMMA EndLayoutKeeps == LInv /\ EndLayout => LInv'
<1> SUFFICES ASSUME LInv, EndLayout PROVE LInv'
  OBVIOUS
<1>1. /\ phase = "layout" /\ at' = 1 /\ at \in Nat /\ at > Len(expanded)
      /\ phase' = IF errors = <<>> THEN "emit" ELSE "layout_failed"
      /\ UNCHANGED <<source, expanded, items, errors>>
  BY DEF LInv, IInv, CountersInv, EndLayout
<1>2. IInv'
  BY EndLayoutInv DEF LInv
<1>3. CASE errors # <<>>
  BY <1>1, <1>2, <1>3 DEF LInv, LinesInv, ErrorsInv, Emitting
<1>4. CASE errors = <<>>
  <2>1. Reported = {} /\ Reported' = {}
    BY <1>1, <1>4, ElementsOfNone DEF Reported
  <2>2. ASSUME NEW n \in DOMAIN source, Spoken(source[n])
        PROVE  Laying(n)
    <3>1. PICK e \in Range(expanded) : e.line = n /\ Spoken(e)
      BY <1>1, <2>1, <2>2 DEF LInv, LinesInv, Accounted, Expanded
    <3>2. PICK k \in DOMAIN expanded : e = expanded[k]
      BY <3>1 DEF Range
    <3>3. k \in 1..at - 1
      BY <1>1, <3>2 DEF LInv, IInv, ExpandedInv, IsSequence
    <3> QED BY <1>1, <3>1, <3>2, <3>3 DEF LInv, LinesInv
  <2>3. \A n \in DOMAIN source' : Spoken(source'[n]) => Laying(n)'
    BY <1>1, <2>2 DEF Laying
  <2>4. {items'[j].line : j \in {k \in 1..at' - 1 : Faulty(k)'}} = {} /\ at' <= Len(items') + 1
    BY <1>1 DEF LInv, IInv, ItemsInv, Laid, IsSequence
  <2> QED BY <1>1, <1>2, <1>4, <2>1, <2>3, <2>4 DEF LInv, LinesInv, ErrorsInv
<1> QED BY <1>3, <1>4

-----------------------------------------------------------------------------
(* Emission.                                                               *)

(* What one more item adds to the lines that are in error.                 *)
LEMMA FaultyStep ==
  ASSUME at \in Nat \ {0}, at' = at + 1, UNCHANGED <<items, symbol_table>>
  PROVE  {items'[j].line : j \in {k \in 1..at' - 1 : Faulty(k)'}}
           = {items[j].line : j \in {k \in 1..at - 1 : Faulty(k)}}
               \cup (IF Faulty(at) THEN {items[at].line} ELSE {})
<1>1. \A k : Faulty(k)' <=> Faulty(k)
  BY DEF Faulty, Emits
<1>2. {k \in 1..at' - 1 : Faulty(k)'}
        = {k \in 1..at - 1 : Faulty(k)} \cup (IF Faulty(at) THEN {at} ELSE {})
  BY <1>1
<1> QED BY <1>2

(* What every step of the pass leaves to be shown.                         *)
LEMMA EmissionKeeps ==
  ASSUME LInv, IInv', phase = "emit", at <= Len(items), at' = at + 1,
         UNCHANGED <<source, phase, expanded, items, symbol_table>>,
         IsSequence(errors'),
         Reported' = Reported \cup (IF Faulty(at) THEN {items[at].line} ELSE {})
  PROVE  LInv'
<1>1. at \in Nat \ {0} /\ Len(items) \in Nat
  BY DEF LInv, IInv, CountersInv, ItemsInv, Laid, IsSequence
<1>2. Reported' = {items'[j].line : j \in {k \in 1..at' - 1 : Faulty(k)'}}
  BY <1>1, FaultyStep DEF LInv, ErrorsInv, Emitting
<1>3. LinesInv'
  BY DEF LInv, LinesInv, Emitting, Laying
<1> QED BY <1>1, <1>2, <1>3 DEF LInv, ErrorsInv

LEMMA EmitNothingKeeps == LInv /\ EmitNothing => LInv'
<1> SUFFICES ASSUME LInv, EmitNothing PROVE LInv'
  OBVIOUS
<1>1. IInv'
  BY EmitNothingInv DEF LInv
<1>2. ~Faulty(at)
  BY DEF EmitNothing, Faulty, Emits
<1>3. IsSequence(errors') /\ Reported' = Reported
  BY DEF EmitNothing, LInv, ErrorsInv, Reported
<1> QED BY <1>1, <1>2, <1>3, EmissionKeeps DEF EmitNothing

LEMMA EmitDataKeeps == LInv /\ EmitData => LInv'
<1> SUFFICES ASSUME LInv, EmitData PROVE LInv'
  OBVIOUS
<1>1. IInv'
  BY EmitDataInv DEF LInv
<1>2. ~Faulty(at)
  BY DEF EmitData, Faulty
<1>3. IsSequence(errors') /\ Reported' = Reported
  BY DEF EmitData, LInv, ErrorsInv, Reported
<1>4. phase = "emit" /\ at <= Len(items) /\ at' = at + 1
      /\ UNCHANGED <<source, phase, expanded, items, symbol_table>>
  BY DEF EmitData
<1> QED BY <1>1, <1>2, <1>3, <1>4, EmissionKeeps

LEMMA EmitErrorKeeps == LInv /\ EmitError => LInv'
<1> SUFFICES ASSUME LInv, EmitError PROVE LInv'
  OBVIOUS
<1>1. IInv'
  BY EmitErrorInv DEF LInv
<1>2. Faulty(at)
  BY DEF EmitError, Faulty, Emits
<1>3. IsSequence(errors') /\ Reported' = Reported \cup {items[at].line}
  BY ElementsOfLonger DEF EmitError, LInv, ErrorsInv, Reported
<1>4. phase = "emit" /\ at <= Len(items) /\ at' = at + 1
      /\ UNCHANGED <<source, phase, expanded, items, symbol_table>>
  BY DEF EmitError
<1> QED BY <1>1, <1>2, <1>3, <1>4, EmissionKeeps

LEMMA FinishKeeps == LInv /\ Finish => LInv'
<1> SUFFICES ASSUME LInv, Finish PROVE LInv'
  OBVIOUS
<1>1. IInv'
  BY FinishInv DEF LInv
<1>2. /\ phase = "emit" /\ phase' \in {"written", "emit_failed"} /\ at > Len(items)
      /\ UNCHANGED <<source, at, expanded, items, symbol_table, errors>>
  BY DEF Finish
<1>3. \A k : Faulty(k)' <=> Faulty(k)
  BY <1>2 DEF Faulty, Emits
<1>4. Reported' = {items'[j].line : j \in {k \in 1..at' - 1 : Faulty(k)'}}
  BY <1>2, <1>3 DEF LInv, ErrorsInv, Emitting, Reported
<1>5. LinesInv'
  BY <1>2 DEF LInv, LinesInv, Emitting, Laying
<1>6. phase' = "written" => Reported' = {}
  BY <1>2, ElementsOfNone DEF Finish, Reported
<1>7. ErrorsInv'
  BY <1>2, <1>4, <1>6 DEF LInv, ErrorsInv, Emitting
<1> QED BY <1>1, <1>5, <1>7 DEF LInv

-----------------------------------------------------------------------------
LEMMA InitKeeps == Init => LInv
<1> SUFFICES ASSUME Init PROVE LInv
  OBVIOUS
<1>1. phase = "expand" /\ at = 1 /\ errors = <<>>
  BY DEF Init
<1> QED BY <1>1, InitInv, ElementsOfNone DEF LInv, LinesInv, ErrorsInv, Emitting

LEMMA StutterKeeps == LInv /\ UNCHANGED vars => LInv'
<1> SUFFICES ASSUME LInv, UNCHANGED vars PROVE LInv'
  OBVIOUS
<1>1. IInv'
  BY StutterInv DEF LInv
<1>2. LinesInv'
  BY DEF LInv, LinesInv, Accounted, Reported, Expanded, Laying, Emitting, vars
<1>3. ErrorsInv'
  <2>1. \A k : Faulty(k)' <=> Faulty(k)
    BY DEF Faulty, Emits, vars
  <2> QED BY <2>1 DEF LInv, ErrorsInv, Reported, Emitting, vars
<1> QED BY <1>1, <1>2, <1>3 DEF LInv

(* Whatever the program: when the second pass ends, each line has all of   *)
(* its bytes in the image, and an item if it has something to emit, or it  *)
(* is reported, because an item of its own was refused, and nothing is     *)
(* written: no file has a hole.                                            *)
THEOREM EveryLineCounts == Spec => []NoLineLost
<1>1. LInv /\ [Next]_vars => LInv'
  BY ExpandLineKeeps, StartLayoutKeeps, LayBlankKeeps, LayBareColonKeeps, LayOrgKeeps,
     LayStatementKeeps, EndLayoutKeeps, EmitNothingKeeps, EmitDataKeeps, EmitErrorKeeps,
     FinishKeeps, StutterKeeps DEF Next
<1>2. LInv => NoLineLost
  <2> SUFFICES ASSUME LInv, phase \in {"written", "emit_failed"}, NEW n \in DOMAIN source
               PROVE  /\ Whole(n) \/ (n \in Reported /\ phase = "emit_failed")
                      /\ n \in Reported => \E i \in Of(n) : Faulty(i)
    BY DEF NoLineLost, Diagnosed, Reported, Range
  <2>1. /\ DOMAIN items = 1..Len(items) /\ Len(items) \in Nat /\ at \in Nat /\ at = Len(items) + 1
    BY DEF LInv, ErrorsInv, IInv, ItemsInv, Laid, IsSequence, CountersInv,
           Emitting
  <2>2. DOMAIN items = 1..at - 1
    BY <2>1
  <2>3. Reported = {items[j].line : j \in {k \in 1..at - 1 : Faulty(k)}} /\ DOMAIN image.bytes = Filled
    BY DEF LInv, ErrorsInv, IInv, ImageInv, Emitting
  <2>4. n \in Reported \/ \A i \in Of(n) : Reserved(i) \subseteq DOMAIN image.bytes
    BY <2>2, <2>3 DEF Filled, Of
  <2>5. Spoken(source[n]) => Laying(n)
    BY DEF LInv, LinesInv, Emitting
  <2>6. source[n].op \in {"", ".org"} \/ Of(n) # {}
    BY <2>5 DEF Spoken, Laying, Range, Emits, Of
  <2>7. n \in Reported => \E i \in Of(n) : Faulty(i)
    BY <2>2, <2>3 DEF Faulty, Of
  <2>8. n \in Reported => phase = "emit_failed"
    BY DEF LInv, ErrorsInv
  <2> QED BY <2>4, <2>6, <2>7, <2>8 DEF Whole
<1> QED BY InitKeeps, <1>1, <1>2, PTL DEF Spec

-----------------------------------------------------------------------------
(* Words and bytes.                                                        *)

LEMMA SlicesAgree ==
  ASSUME NEW v, NEW w, \A x \in 0..31 : x \in v <=> x \in w,
         NEW from \in 0..31, NEW n \in 0..32, from + n <= 32
  PROVE  Slice(v, from, n) = Slice(w, from, n)
<1>1. \A i \in 0..n - 1 : from + i \in 0..31
  OBVIOUS
<1>2. [i \in 0..n - 1 |-> IF from + i \in v THEN 2^i ELSE 0]
        = [i \in 0..n - 1 |-> IF from + i \in w THEN 2^i ELSE 0]
  BY <1>1, Zenon
<1> QED BY <1>2, Zenon DEF Slice

(* What is read back from the bytes of a word is what was in the word.     *)
Alike(v, w) ==
  /\ unpack_b(v) = unpack_b(w) /\ unpack_j(v) = unpack_j(w)
  /\ fields(v).imm20 = Slice(w, 12, 20) /\ fields(v).imm12 = Slice(w, 20, 12)

LEMMA AlikeByBits ==
  ASSUME NEW v, NEW w, \A x \in 0..31 : x \in v <=> x \in w
  PROVE  Alike(v, w)
<1>1. /\ Slice(v, 31, 1) = Slice(w, 31, 1) /\ Slice(v, 7, 1) = Slice(w, 7, 1)
      /\ Slice(v, 25, 6) = Slice(w, 25, 6) /\ Slice(v, 8, 4) = Slice(w, 8, 4)
      /\ Slice(v, 12, 8) = Slice(w, 12, 8) /\ Slice(v, 20, 1) = Slice(w, 20, 1)
      /\ Slice(v, 21, 10) = Slice(w, 21, 10)
      /\ Slice(v, 12, 20) = Slice(w, 12, 20) /\ Slice(v, 20, 12) = Slice(w, 20, 12)
  BY SlicesAgree
<1>2. unpack_b(v) = unpack_b(w) /\ unpack_j(v) = unpack_j(w)
  BY <1>1, Zenon DEF unpack_b, unpack_j
<1>3. fields(v).imm20 = Slice(v, 12, 20) /\ fields(v).imm12 = Slice(v, 20, 12)
  BY DEF fields
<1> QED BY <1>1, <1>2, <1>3 DEF Alike

(* The bytes at an address are those of a word.                            *)
HasWord(a, w) == \A k \in 0..3 : image.bytes[a + k] = Byte(w, k)

LEMMA WordRead ==
  ASSUME NEW a \in Nat, NEW w, HasWord(a, w)
  PROVE  Alike(WordAt(a), w)
<1>1. \A k \in 0..3 : \A b : b \in image.bytes[a + k] <=> b \in 0..7 /\ 8 * k + b \in w
  BY DEF HasWord, Byte
<1>2. \A x : x \in WordAt(a) <=> \E k \in 0..3 : \E b \in image.bytes[a + k] : x = 8 * k + b
  BY DEF WordAt
<1>3. ASSUME NEW x \in 0..31, NEW b \in 0..7, NEW k \in 0..3, x = 8 * k + b
      PROVE  x \in WordAt(a) <=> x \in w
  <2>1. \A l \in 0..3, c \in 0..7 : x = 8 * l + c => l = k /\ c = b
    BY <1>3
  <2>2. x \in WordAt(a) <=> \E l \in 0..3 : \E c \in 0..7 : 8 * l + c \in w /\ x = 8 * l + c
    BY <1>1, <1>2
  <2> QED BY <1>3, <2>1, <2>2
<1>4. \A x \in 0..31 : x \in WordAt(a) <=> x \in w
  <2> TAKE x \in 0..31
  <2>1. x = 8 * (x \div 8) + (x % 8) /\ x \div 8 \in 0..3 /\ x % 8 \in 0..7
    OBVIOUS
  <2> QED BY <1>3, <2>1
<1> QED BY <1>4, AlikeByBits

-----------------------------------------------------------------------------
(* Where an instruction leads, by what it was made of.                     *)

LEMMA RelativeRows ==
  ASSUME NEW m \in DOMAIN ENC
  PROVE  /\ m # "la" /\ m \notin Directives \cup {"", "la"}
         /\ ENC[m].fmt = "J" <=> m = "jal"
<1>1. Rows(m)
  BY RowsOf
<1>2. m \notin Directives \cup {"", "la"}
  BY <1>1 DEF Directives, WIDTH, Rows, IsRow, RegisterF3, AlternateF3, ImmediateF3, ShiftF3, SraiF3,
     BranchF3, LoadF3, StoreF3, JalrF3, JalF3, LuiF3, AuipcF3, SystemF3, FenceF3, CsrF3
<1>3. ASSUME ENC[m].fmt = "J" PROVE m = "jal"
  BY <1>1, <1>3 DEF Rows, IsRow, JalF3
<1>4. ASSUME m = "jal" PROVE ENC[m].fmt = "J"
  BY <1>1, <1>4 DEF Rows, IsRow, RegisterF3, AlternateF3, ImmediateF3, ShiftF3, SraiF3, BranchF3,
     LoadF3, StoreF3, JalrF3, LuiF3, AuipcF3, SystemF3, FenceF3, CsrF3
<1> QED BY <1>2, <1>3, <1>4

LEMMA WordsAreMade ==
  ASSUME NEW m, NEW a, NEW address, NEW symbols, NEW w \in Words(m, a, address, symbols)
  PROVE  /\ m \in DOMAIN ENC
         /\ \E b \in Parsed(m, a, address, symbols) : w \in instruction_handler(m, b)
BY DEF Words

LEMMA BranchesAim ==
  ASSUME NEW m \in DOMAIN ENC, ENC[m].fmt = "B", NEW a, NEW address, NEW symbols,
         NEW w \in Words(m, a, address, symbols)
  PROVE  /\ unpack_b(w) \in Int /\ unpack_b(w) \in resolve_pc_relative(a[Len(a)], address, symbols)
         /\ Len(a) = 3
<1>1. PICK b \in Parsed(m, a, address, symbols) : w \in instruction_handler(m, b)
  BY WordsAreMade
<1>2. unpack_b(w) = b.imm
  BY <1>1, HandlerMakes DEF IsMade, ImmediateIs
<1>3. instruction_handler(m, b) = pack_b(b.rs1, b.rs2, ENC[m].f3, b.imm, ENC[m].opcode)
  BY DEF instruction_handler
<1>4. b.imm \in Int
  BY <1>1, <1>3, Ranges DEF pack_b
<1>5. Len(a) = 3 /\ Parsed(m, a, address, symbols) =
        Operands({0}, parse_register(a[1]), parse_register(a[2]), resolve_pc_relative(a[3], address, symbols))
  BY <1>1 DEF Parsed
<1>6. b.imm \in resolve_pc_relative(a[3], address, symbols)
  BY <1>5 DEF Operands
<1> QED BY <1>2, <1>4, <1>5, <1>6

LEMMA JumpsAim ==
  ASSUME NEW m \in DOMAIN ENC, ENC[m].fmt = "J", NEW a, NEW address, NEW symbols,
         NEW w \in Words(m, a, address, symbols)
  PROVE  /\ unpack_j(w) \in Int /\ unpack_j(w) \in resolve_pc_relative(a[Len(a)], address, symbols)
         /\ Len(a) = 2
<1>1. PICK b \in Parsed(m, a, address, symbols) : w \in instruction_handler(m, b)
  BY WordsAreMade
<1>2. unpack_j(w) = b.imm
  BY <1>1, HandlerMakes DEF IsMade, ImmediateIs
<1>3. instruction_handler(m, b) = pack_j(b.rd, b.imm, ENC[m].opcode)
  BY DEF instruction_handler
<1>4. b.imm \in Int
  BY <1>1, <1>3, Ranges DEF pack_j
<1>5. Len(a) = 2 /\ Parsed(m, a, address, symbols) =
        Operands(parse_register(a[1]), {0}, {0}, resolve_pc_relative(a[2], address, symbols))
  BY <1>1 DEF Parsed
<1>6. b.imm \in resolve_pc_relative(a[2], address, symbols)
  BY <1>5 DEF Operands
<1> QED BY <1>2, <1>4, <1>5, <1>6

(* auipc takes a rounded upper part, which the signed lower part corrects. *)
LEMMA HalvesAdd ==
  ASSUME NEW v \in Int, v >= -(2^30), v <= 2^30
  PROVE  LET s == Split(Pair(v))
         IN /\ s.upper \in Int /\ s.upper >= -(2^19) /\ s.upper < 2^19
            /\ s.lower \in Int /\ s.lower >= -2048 /\ s.lower < 2048
            /\ s.upper * 4096 + s.lower = v
<1> DEFINE q == v \div 4096
           r == v % 4096
           upper == q + (IF r >= 2048 THEN 1 ELSE 0)
           lower == IF r >= 2048 THEN r - 4096 ELSE r
<1>1. q \in Int /\ r \in Int /\ r >= 0 /\ r < 4096 /\ v = q * 4096 + r
  BY SMT
<1>2. 2^30 = 1073741824 /\ 2^19 = 524288
  BY SMT
<1>3. q >= -262144 /\ q <= 262144
  BY <1>1, <1>2, SMT
<1>4. Split(Pair(v)).upper = upper /\ Split(Pair(v)).lower = lower
  <2>1. Pair(v)[1] = q /\ Pair(v)[2] = r
    BY Zenon DEF Pair
  <2>2. SignExtend(r, 12) = lower
    BY <1>1, SignExtendIs, SMT
  <2> QED BY <2>1, <2>2, SMT DEF Split
<1> HIDE DEF q, r
<1> QED BY <1>1, <1>2, <1>3, <1>4, SMT

LEMMA UpperWord ==
  ASSUME NEW rd, NEW upper \in Int, upper >= -(2^19), upper < 2^19, NEW w \in pack_u(rd, upper, OP_AUIPC)
  PROVE  SignExtend(Slice(w, 12, 20), 20) = upper
<1>1. rd \in 0..31 /\ w = Field(upper, 20, 12) \cup Encode(OP_AUIPC, rd, 0, 0, 0, 0)
  BY DEF pack_u, Reg
<1>2. OP_AUIPC \in 0..127
  BY DEF OP_AUIPC
<1>3. SlicedU(w, OP_AUIPC, rd, upper)
  BY <1>1, <1>2, BitsOfU, Zenon
<1>4. Slice(w, 12, 20) = upper % 1048576
  BY <1>3 DEF SlicedU
<1>5. IsSigned(upper, 20)
  BY SignedAgain, Literals, SMT
<1> QED BY <1>4, <1>5, Literals, SMT DEF IsSigned

LEMMA LowerBits ==
  ASSUME NEW rd, NEW lower \in Int, NEW w \in pack_i(rd, rd, 0, lower, OP_OPIMM)
  PROVE  SlicedI(w, OP_OPIMM, rd, 0, rd, lower)
<1>1. rd \in 0..31 /\ w = Field(lower, 12, 20) \cup Encode(OP_OPIMM, rd, 0, rd, 0, 0)
  BY DEF pack_i, Reg
<1>2. OP_OPIMM \in 0..127 /\ 0 \in 0..7
  BY DEF OP_OPIMM
<1> QED BY <1>1, <1>2, BitsOfI, Zenon

LEMMA LowerWord ==
  ASSUME NEW rd, NEW lower \in Int, lower >= -2048, lower < 2048,
         NEW w \in pack_i(rd, rd, 0, lower, OP_OPIMM)
  PROVE  SignExtend(Slice(w, 20, 12), 12) = lower
<1>1. SlicedI(w, OP_OPIMM, rd, 0, rd, lower)
  BY LowerBits
<1>2. Slice(w, 20, 12) = lower % 4096
  BY <1>1, SMT DEF SlicedI
<1>3. IsSigned(lower, 12)
  BY SignedAgain, SMT
<1> QED BY <1>2, <1>3, Literals, SMT DEF IsSigned

(* Two words one after the other, and what auipc and addi make of them.    *)
HasWords(d, v, w) == \A k \in 0..3 : d[k] = Byte(v, k) /\ d[4 + k] = Byte(w, k)
Upper(v) == SignExtend(Slice(v, 12, 20), 20)
Lower(w) == SignExtend(Slice(w, 20, 12), 12)
LoadUp(v, w, n) == Upper(v) \in Int /\ Lower(w) \in Int /\ Upper(v) * 4096 + Lower(w) = n

LEMMA LoadsAim ==
  ASSUME NEW a, NEW address \in Nat, NEW symbols, NEW d \in encode_la(a, address, symbols),
         symbols[a[2].text] \in Nat, symbols[a[2].text] <= 2^30, address <= 2^30
  PROVE  /\ a[2].text \in DOMAIN symbols
         /\ \E v, w : HasWords(d, v, w) /\ LoadUp(v, w, symbols[a[2].text] - address)
<1> DEFINE there == symbols[a[2].text]
           s == Split(Pair(there - address))
           Both(rd) == pack_u(rd, s.upper, OP_AUIPC) \X pack_i(rd, rd, 0, s.lower, OP_OPIMM)
           Bytes(w) == [k \in 0..7 |-> IF k < 4 THEN Byte(w[1], k) ELSE Byte(w[2], k - 4)]
<1>1. /\ a[2].text \in DOMAIN symbols
      /\ encode_la(a, address, symbols) = {Bytes(w) : w \in UNION {Both(rd) : rd \in parse_register(a[1])}}
  BY DEF encode_la
<1>2. PICK rd, w : w \in Both(rd) /\ d = Bytes(w)
  BY <1>1
<1>3. w[1] \in pack_u(rd, s.upper, OP_AUIPC) /\ w[2] \in pack_i(rd, rd, 0, s.lower, OP_OPIMM)
  BY <1>2
<1>4. there - address \in Int /\ there - address >= -(2^30) /\ there - address <= 2^30
  BY SMT
<1>5. /\ s.upper \in Int /\ s.upper >= -(2^19) /\ s.upper < 2^19
      /\ s.lower \in Int /\ s.lower >= -2048 /\ s.lower < 2048
      /\ s.upper * 4096 + s.lower = there - address
  <2> HIDE DEF there
  <2> QED BY <1>4, HalvesAdd, SMT
<1>6. HasWords(d, w[1], w[2])
  <2>1. \A k \in 0..3 : k \in 0..7 /\ k < 4 /\ 4 + k \in 0..7 /\ ~(4 + k < 4) /\ (4 + k) - 4 = k
    BY SMT
  <2> QED BY <1>2, <2>1, SMT DEF HasWords
<1>7. Upper(w[1]) = s.upper
  <2> HIDE DEF s
  <2> QED BY <1>3, <1>5, UpperWord, SMT DEF Upper
<1>8. Lower(w[2]) = s.lower
  <2> HIDE DEF s
  <2> QED BY <1>3, <1>5, LowerWord, SMT DEF Lower
<1>9. LoadUp(w[1], w[2], there - address)
  BY <1>5, <1>7, <1>8, SMT DEF LoadUp
<1> QED BY <1>1, <1>6, <1>9

-----------------------------------------------------------------------------
(* Labels: which line of the source one stands on, and what comes next.    *)

LEMMA RelativeNames ==
  Relative \subseteq {"beq", "bne", "blt", "bge", "bltu", "bgeu", "jal"}
<1> SUFFICES ASSUME NEW m \in Relative PROVE m \in {"beq", "bne", "blt", "bge", "bltu", "bgeu", "jal"}
  OBVIOUS
<1>1. Rows(m) /\ ENC[m].fmt \in {"B", "J"}
  BY RowsOf DEF Relative
<1> QED BY <1>1 DEF Rows, IsRow, BranchF3, JalF3

(* What is left out of an operand is no number, and an operation that      *)
(* names a target names it by such an operand.                             *)
Named(t) == t.text = "" => t.num = {}
Aims(op) == op \in Relative \cup {"la"}
AllNamed(a) == IsSequence(a) /\ \A j \in DOMAIN a : Named(a[j])
Aimed(l) == Aims(l.op) => AllNamed(l.operands)

LEMMA NamedTwo ==
  ASSUME NEW t, NEW u, Named(t), Named(u)
  PROVE  AllNamed(<<t, u>>)
<1>1. <<t, u>> \in Seq({t, u}) /\ DOMAIN <<t, u>> = 1..2
  OBVIOUS
<1>2. IsSequence(<<t, u>>)
  BY <1>1, Narrowed
<1> QED BY <1>1, <1>2 DEF AllNamed

LEMMA NamedThree ==
  ASSUME NEW t, NEW u, NEW v, Named(t), Named(u), Named(v)
  PROVE  AllNamed(<<t, u, v>>)
<1>1. <<t, u, v>> \in Seq({t, u, v}) /\ DOMAIN <<t, u, v>> = 1..3
  OBVIOUS
<1>2. IsSequence(<<t, u, v>>)
  BY <1>1, Narrowed
<1> QED BY <1>1, <1>2 DEF AllNamed

LEMMA OperandsNamed ==
  ASSUME NEW l \in Line
  PROVE  AllNamed(l.operands)
<1>1. l.operands \in Seq(Operand)
  BY DEF Line
<1>2. \A j \in DOMAIN l.operands : l.operands[j] \in Operand
  BY <1>1
<1>3. IsSequence(l.operands)
  BY <1>1, Narrowed
<1> QED BY <1>2, <1>3 DEF AllNamed, Named, Operand

LEMMA PlainAims ==
  ASSUME NEW op \in DOMAIN Arity \ {"li"}, NEW a, Aims(Plain(op, a).op)
  PROVE  \/ op = "j" /\ Plain(op, a).operands = <<x0, a[1]>>
         \/ op \in {"beqz", "bnez"} /\ Plain(op, a).operands = <<a[1], x0, a[2]>>
<1>1. Plain(op, a).op \in {"beq", "bne", "blt", "bge", "bltu", "bgeu", "jal", "la"}
  BY RelativeNames DEF Aims
<1>2. CASE op \in {"j", "beqz", "bnez"}
  BY <1>2 DEF Plain, Statement
<1>3. CASE op \notin {"j", "beqz", "bnez"}
  BY <1>1, <1>3 DEF Plain, Statement, Arity
<1> QED BY <1>2, <1>3

LEMMA ReplacementsAimed ==
  ASSUME NEW l \in Line, NEW s \in Replacements(l), NEW k \in DOMAIN s
  PROVE  Aimed(s[k])
<1>1. CASE ~IsPseudo(l)
  <2>1. s = <<Statement(l.op, l.operands)>>
    BY <1>1 DEF Replacements
  <2>2. k = 1 /\ s[1] = Statement(l.op, l.operands)
    BY <2>1, Singleton
  <2> QED BY <2>2, OperandsNamed DEF Aimed, Statement
<1>2. CASE IsPseudo(l) /\ l.op = "li"
  <2>1. PICK p : s = LoadImmediate(l.operands[1], p)
    BY <1>2 DEF Replacements
  <2> DEFINE rd == l.operands[1]
             short == Statement("addi", <<rd, x0, Num(p[1] * 4096 + p[2])>>)
             upper == Statement("lui", <<rd, Num(Split(p).upper)>>)
             lower == Statement("addi", <<rd, rd, Num(Split(p).lower)>>)
  <2>2. short.op = "addi" /\ upper.op = "lui" /\ lower.op = "addi"
    BY DEF Statement
  <2>3. s = <<short>> \/ s = <<upper, lower>>
    BY <2>1, LoadImmediateForms
  <2> HIDE DEF short, upper, lower
  <2>4. s[k].op \in {"addi", "lui"}
    BY <2>2, <2>3
  <2> QED BY <2>4, RelativeNames DEF Aimed, Aims
<1>3. CASE IsPseudo(l) /\ l.op # "li"
  <2>1. s = <<Plain(l.op, l.operands)>> /\ l.op \in DOMAIN Arity \ {"li"}
    BY <1>3 DEF Replacements, IsPseudo
  <2>2. k = 1 /\ s[k] = Plain(l.op, l.operands)
    BY <2>1, Singleton
  <2> SUFFICES ASSUME Aims(Plain(l.op, l.operands).op)
               PROVE  AllNamed(Plain(l.op, l.operands).operands)
    BY <2>2 DEF Aimed
  <2>3. Named(x0)
    BY DEF x0, Name, Token, Named
  <2>4. CASE l.op = "j" /\ Plain(l.op, l.operands).operands = <<x0, l.operands[1]>>
    <3>1. 1 \in DOMAIN l.operands
      BY <1>3, <2>4, OperandsNamed DEF IsPseudo, Arity, AllNamed, IsSequence
    <3>2. Named(l.operands[1])
      BY <3>1, OperandsNamed DEF AllNamed
    <3> QED BY <2>3, <2>4, <3>2, NamedTwo
  <2>5. CASE l.op \in {"beqz", "bnez"}
             /\ Plain(l.op, l.operands).operands = <<l.operands[1], x0, l.operands[2]>>
    <3>1. 1 \in DOMAIN l.operands /\ 2 \in DOMAIN l.operands
      BY <1>3, <2>5, OperandsNamed DEF IsPseudo, Arity, AllNamed, IsSequence
    <3>2. Named(l.operands[1]) /\ Named(l.operands[2])
      BY <3>1, OperandsNamed DEF AllNamed
    <3> QED BY <2>3, <2>5, <3>2, NamedThree
  <2> QED BY <2>1, <2>4, <2>5, PlainAims
<1> QED BY <1>1, <1>2, <1>3

(* Lines stay in order, and a label stays on the first of its line.        *)
Clean == Emitting \/ Reported = {}

LabelKept(n) == \E k \in DOMAIN expanded : expanded[k].line = n /\ expanded[k].label = source[n].label

(* One expanded line, and two one after the other.                         *)
FromSource(e) ==
  /\ {"line", "op"} \subseteq DOMAIN e
  /\ Aimed(e) /\ e.line \in DOMAIN source
  /\ phase = "expand" => e.line < at
  /\ e.label # "" => source[e.line].label = e.label
InOrder(e, f) == e.line <= f.line /\ (f.label # "" => e.line < f.line)

OrderInv ==
  /\ \A k \in DOMAIN expanded : FromSource(expanded[k])
  /\ \A j, k \in DOMAIN expanded : j < k => InOrder(expanded[j], expanded[k])
  /\ Clean => \A n \in DOMAIN source : (phase = "expand" => n < at) => LabelKept(n)

(* The first line with a label, and the address of what q has next on or   *)
(* after a line: p if there is nothing.                                    *)
IsFirst(n, s) ==
  n \in DOMAIN source /\ source[n].label = s /\ \A m \in DOMAIN source : source[m].label = s => n <= m
NextOf(q, n) == {i \in DOMAIN q : q[i].line >= n /\ q[i].kind # "label"}
PlacedIn(q, p, n, a) ==
  \/ NextOf(q, n) = {} /\ a = p
  \/ \E i \in NextOf(q, n) : (\A j \in NextOf(q, n) : i <= j) /\ a = q[i].address

ItemAimed(e) == Aimed(e) /\ (Aims(e.op) => e.kind = "instruction")
LaidLines == IF phase = "layout" THEN {k \in DOMAIN expanded : k < at} ELSE DOMAIN expanded
Placed(s) ==
  \E k \in LaidLines :
    IsFirst(expanded[k].line, s) /\ PlacedIn(items, pc, expanded[k].line, symbol_table[s])

PlacesInv ==
  /\ phase = "expand" => DOMAIN items = {} /\ DOMAIN symbol_table = {} /\ pc = 0
  /\ \A i \in DOMAIN items : ItemAimed(items[i]) /\ \E k \in LaidLines : items[i].line = expanded[k].line
  /\ Clean /\ phase # "expand" =>
       /\ \A k \in LaidLines : /\ expanded[k].label # EmptyLabel
                               /\ expanded[k].label # "" => expanded[k].label \in DOMAIN symbol_table
       /\ \A s \in DOMAIN symbol_table : Placed(s)
  /\ Clean => pc <= MAX_IMAGE_BYTES

(* The image has the bytes of the data that each item was given.           *)
HasData(i, d) == \A k \in DOMAIN d : image.bytes[items[i].address + k] = d[k]
BytesInv ==
  Emitting => \A i \in 1..at - 1 :
                Emits(i) /\ ~Faulty(i) => \E d \in Data(items[i], symbol_table) : HasData(i, d)

TInv == LInv /\ OrderInv /\ PlacesInv /\ BytesInv

-----------------------------------------------------------------------------
(* Expansion.                                                              *)

(* The lines that a line is expanded to.                                   *)
IsExpansion(t, n, label) ==
  /\ IsSequence(t) /\ 1 \in DOMAIN t
  /\ \A k \in DOMAIN t : {"line", "op"} \subseteq DOMAIN t[k]
  /\ \A k \in DOMAIN t : Aimed(t[k]) /\ t[k].line = n /\ t[k].label = (IF k = 1 THEN label ELSE "")

LEMMA NumberedInOrder ==
  ASSUME NEW l, l \in Line, NEW s, s \in Replacements(l), NEW n
  PROVE  IsExpansion(Numbered(n, l.label, s), n, l.label)
<1> DEFINE t == Numbered(n, l.label, s)
<1>1. IsSequence(t)
  BY ReplacementsSized, NumberedSized DEF Expansion
<1>2. DOMAIN t = DOMAIN s
  BY DEF Numbered
<1>3. \A k \in DOMAIN t : /\ t[k].line = n /\ t[k].label = (IF k = 1 THEN l.label ELSE "")
                          /\ t[k].op = s[k].op /\ t[k].operands = s[k].operands
  BY DEF Numbered
<1>4. \A k \in DOMAIN t : Aimed(t[k])
  BY <1>2, <1>3, ReplacementsAimed DEF Aimed
<1>5. 1 \in DOMAIN s
  <2>1. CASE Spoken(l)
    BY <2>1, ReplacementsSpoken
  <2>2. CASE ~Spoken(l)
    <3>1. ~IsPseudo(l)
      BY <2>2 DEF Spoken, IsPseudo, Arity
    <3>2. s = <<Statement(l.op, l.operands)>>
      BY <3>1 DEF Replacements
    <3> QED BY <3>2, Singleton
  <2> QED BY <2>1, <2>2
<1>6. \A k \in DOMAIN t : {"line", "op"} \subseteq DOMAIN t[k]
  BY DEF Numbered
<1> HIDE DEF t
<1>7. IsExpansion(t, n, l.label)
  BY <1>1, <1>2, <1>3, <1>4, <1>5, <1>6 DEF IsExpansion
<1> QED BY <1>7 DEF t

(* Two sequences one after the other, index by index.                      *)
LEMMA JoinedParts ==
  ASSUME NEW s, NEW t, IsSequence(s), IsSequence(t), NEW k \in DOMAIN (s \o t)
  PROVE  \/ k \in DOMAIN s /\ (s \o t)[k] = s[k]
         \/ \E j \in DOMAIN t : k = Len(s) + j /\ (s \o t)[k] = t[j] /\ k \notin DOMAIN s
<1>1. /\ Len(s) \in Nat /\ DOMAIN s = 1..Len(s)
      /\ Len(t) \in Nat /\ DOMAIN t = 1..Len(t)
      /\ k \in 1..Len(s) + Len(t)
      /\ \A i \in 1..Len(s) : (s \o t)[i] = s[i]
      /\ \A i \in 1..Len(t) : (s \o t)[Len(s) + i] = t[i]
  BY Concatenation
<1>2. CASE k <= Len(s)
  BY <1>1, <1>2
<1>3. CASE k > Len(s)
  <2>1. k - Len(s) \in 1..Len(t) /\ k = Len(s) + (k - Len(s)) /\ k \notin 1..Len(s)
    BY <1>1, <1>3
  <2> DEFINE j == k - Len(s)
  <2> HIDE DEF j
  <2>2. j \in DOMAIN t /\ k = Len(s) + j /\ k \notin DOMAIN s
    BY <1>1, <2>1 DEF j
  <2>3. (s \o t)[k] = t[j]
    BY <1>1, <2>2
  <2> QED BY <2>2, <2>3
<1> QED BY <1>1, <1>2, <1>3

LEMMA FirstJoined ==
  ASSUME NEW s, NEW t, IsSequence(s), IsSequence(t)
  PROVE  /\ \A k \in DOMAIN s : k \in DOMAIN (s \o t) /\ (s \o t)[k] = s[k]
         /\ \A j \in DOMAIN t : Len(s) + j \in DOMAIN (s \o t) /\ (s \o t)[Len(s) + j] = t[j]
<1>1. /\ Len(s) \in Nat /\ DOMAIN s = 1..Len(s)
      /\ Len(t) \in Nat /\ DOMAIN t = 1..Len(t)
      /\ DOMAIN (s \o t) = 1..Len(s) + Len(t)
      /\ \A i \in 1..Len(s) : (s \o t)[i] = s[i]
      /\ \A i \in 1..Len(t) : (s \o t)[Len(s) + i] = t[i]
  BY Concatenation
<1> QED BY <1>1

LEMMA RangesJoined ==
  ASSUME NEW s, NEW t, IsSequence(s), IsSequence(t), NEW k \in DOMAIN t
  PROVE  Len(s) \in Nat /\ k \in Nat \ {0} /\ DOMAIN s \subseteq Nat
BY Concatenation

LEMMA ExpandLineOrders ==
  ASSUME TInv, ExpandLine, LInv'
  PROVE  OrderInv'
<1> DEFINE l == source[at]
<1>1. /\ phase = "expand" /\ phase' = "expand" /\ at \in Nat \ {0} /\ at' = at + 1 /\ at <= Len(source)
      /\ source' = source /\ l \in Line /\ at \in DOMAIN source
      /\ IsSequence(expanded) /\ IsSequence(errors)
      /\ DOMAIN source \subseteq Nat
  BY DEF TInv, LInv, IInv, CountersInv, ExpandedInv, ErrorsInv, ExpandLine
<1>2. OrderInv /\ ~Emitting /\ ~Emitting'
  BY <1>1 DEF TInv, Emitting
<1>3. \A k \in DOMAIN expanded : FromSource(expanded[k])
  BY <1>2 DEF OrderInv
<1>4. ASSUME NEW k, FromSource(expanded[k]), NEW j, expanded'[j] = expanded[k]
      PROVE  FromSource(expanded[j])'
  <2>1. expanded[k].line \in Nat /\ expanded[k].line < at
    BY <1>1, <1>4 DEF FromSource
  <2>2. expanded[k].line < at'
    BY <1>1, <2>1
  <2> QED BY <1>1, <1>4, <2>2 DEF FromSource, Aimed, AllNamed, Named
<1>5. CASE Replacements(l) = {} /\ errors' = Append(errors, at) /\ UNCHANGED expanded
  <2>1. at \in Reported'
    BY <1>1, <1>5, ElementsOfLonger DEF Reported
  <2>2. ~Clean'
    BY <1>2, <2>1 DEF Clean
  <2>3. \A k \in DOMAIN expanded' : FromSource(expanded[k])'
    BY <1>3, <1>4, <1>5
  <2> QED BY <1>2, <1>5, <2>2, <2>3 DEF OrderInv, InOrder
<1>6. CASE \E s \in Replacements(l) :
             expanded' = expanded \o Numbered(at, l.label, s) /\ UNCHANGED errors
  <2>1. PICK s \in Replacements(l) :
             expanded' = expanded \o Numbered(at, l.label, s) /\ UNCHANGED errors
    BY <1>6
  <2> DEFINE t == Numbered(at, l.label, s)
  <2>2. IsExpansion(t, at, l.label)
    <3> HIDE DEF l
    <3> QED BY <1>1, NumberedInOrder
  <2>3. expanded' = expanded \o t
    BY <2>1
  <2> HIDE DEF t, l
  <2>4. IsSequence(t) /\ 1 \in DOMAIN t
    BY <2>2 DEF IsExpansion
  <2>5. \A k \in DOMAIN t : Aimed(t[k]) /\ t[k].line = at /\ t[k].label = (IF k = 1 THEN l.label ELSE "")
    BY <2>2 DEF IsExpansion
  <2> DEFINE Lined(e) == {"line", "op"} \subseteq DOMAIN e
  <2>a. \A k \in DOMAIN t : Lined(t[k])
    BY <2>2 DEF IsExpansion
  <2>6. \A k \in DOMAIN expanded' :
           \/ k \in DOMAIN expanded /\ expanded'[k] = expanded[k]
           \/ \E j \in DOMAIN t : k = Len(expanded) + j /\ expanded'[k] = t[j] /\ k \notin DOMAIN expanded
    BY <1>1, <2>3, <2>4, JoinedParts
  <2>7. ASSUME NEW k \in DOMAIN expanded', NEW j \in DOMAIN t, expanded'[k] = t[j]
        PROVE  FromSource(expanded[k])'
    <3>1. Aimed(expanded'[k]) /\ expanded'[k].line = at /\ Lined(expanded'[k])
      BY <2>a, <2>5, <2>7
    <3>2. at \in DOMAIN source /\ at < at'
      BY <1>1
    <3>3. expanded'[k].label # "" => source[at].label = expanded'[k].label
      BY <2>5, <2>7 DEF l
    <3>4. Aimed(expanded'[k]) <=> Aimed(expanded[k])'
      BY DEF Aimed, AllNamed, Named
    <3> QED BY <1>1, <3>1, <3>2, <3>3, <3>4 DEF FromSource
  <2>8. \A k \in DOMAIN expanded' : FromSource(expanded[k])'
    BY <1>3, <1>4, <2>6, <2>7
  <2>9. ASSUME NEW j \in DOMAIN expanded', NEW k \in DOMAIN expanded', j < k
        PROVE  InOrder(expanded[j], expanded[k])'
    <3>1. CASE k \in DOMAIN expanded /\ expanded'[k] = expanded[k]
      <4>1. DOMAIN expanded = 1..Len(expanded) /\ Len(expanded) \in Nat /\ j \in Nat \ {0}
        BY <1>1, <2>3, <2>4, Concatenation
      <4>2. j \in DOMAIN expanded
        BY <2>9, <3>1, <4>1
      <4>3. expanded'[j] = expanded[j]
        BY <2>6, <4>2
      <4>4. InOrder(expanded[j], expanded[k])
        BY <1>2, <2>9, <3>1, <4>2 DEF OrderInv
      <4> QED BY <3>1, <4>3, <4>4 DEF InOrder
    <3>2. CASE \E i \in DOMAIN t : k = Len(expanded) + i /\ expanded'[k] = t[i] /\ k \notin DOMAIN expanded
      <4>1. PICK i \in DOMAIN t : k = Len(expanded) + i /\ expanded'[k] = t[i]
        BY <3>2
      <4>2. expanded'[k].line = at /\ expanded'[k].label = (IF i = 1 THEN l.label ELSE "")
        BY <2>5, <4>1
      <4>3. CASE j \in DOMAIN expanded /\ expanded'[j] = expanded[j]
        <5>1. FromSource(expanded[j])
          BY <1>3, <4>3
        <5>2. expanded'[j].line \in Nat /\ expanded'[j].line < at
          BY <1>1, <4>3, <5>1 DEF FromSource
        <5>3. at \in Nat /\ expanded'[k].line = at
          BY <1>1, <4>2
        <5>4. expanded'[j].line <= expanded'[k].line /\ expanded'[j].line < expanded'[k].line
          BY <5>2, <5>3
        <5> QED BY <5>4 DEF InOrder
      <4>4. CASE \E h \in DOMAIN t : j = Len(expanded) + h /\ expanded'[j] = t[h] /\ j \notin DOMAIN expanded
        <5>1. PICK h \in DOMAIN t : j = Len(expanded) + h /\ expanded'[j] = t[h]
          BY <4>4
        <5>2. expanded'[j].line = at
          BY <2>5, <5>1
        <5>3. Len(expanded) \in Nat /\ i \in Nat \ {0} /\ h \in Nat \ {0}
          BY <1>1, <2>4, RangesJoined
        <5>4. i # 1
          BY <2>9, <4>1, <5>1, <5>3
        <5>5. expanded'[j].line <= expanded'[k].line /\ expanded'[k].label = ""
          <6>1. expanded'[k].label = ""
            BY <4>2, <5>4
          <6>2. expanded'[j].line = at /\ expanded'[k].line = at
            BY <4>2, <5>2
          <6>3. at <= at
            <7>1. at \in Nat
              BY <1>1
            <7> QED BY <7>1
          <6> QED BY <6>1, <6>2, <6>3
        <5> QED BY <5>5 DEF InOrder
      <4> QED BY <2>6, <4>3, <4>4
    <3> QED BY <2>6, <3>1, <3>2
  <2>10. ASSUME Clean', NEW n \in DOMAIN source, n < at' PROVE LabelKept(n)'
    <3>1. Clean
      BY <1>2, <2>1, <2>10 DEF Clean, Reported
    <3>2. CASE n < at
      <4>1. PICK k \in DOMAIN expanded : expanded[k].line = n /\ expanded[k].label = source[n].label
        BY <1>1, <1>2, <3>1, <3>2 DEF OrderInv, LabelKept
      <4>2. k \in DOMAIN expanded' /\ expanded'[k] = expanded[k]
        BY <1>1, <2>3, <2>4, FirstJoined
      <4> QED BY <1>1, <4>1, <4>2 DEF LabelKept
    <3>3. CASE n = at
      <4>1. Len(expanded) + 1 \in DOMAIN expanded' /\ expanded'[Len(expanded) + 1] = t[1]
        BY <1>1, <2>3, <2>4, FirstJoined
      <4>2. t[1].line = at /\ t[1].label = l.label
        BY <2>4, <2>5
      <4> QED BY <1>1, <3>3, <4>1, <4>2 DEF LabelKept, l
    <3>4. n \in Nat
      BY <1>1
    <3> QED BY <1>1, <2>10, <3>2, <3>3, <3>4
  <2>11. Clean' => \A n \in DOMAIN source' : (phase' = "expand" => n < at') => LabelKept(n)'
    BY <1>1, <2>10
  <2> QED BY <2>8, <2>9, <2>11 DEF OrderInv
<1> QED BY <1>5, <1>6 DEF ExpandLine, l

LEMMA ExpandLineReaches == TInv /\ ExpandLine => TInv'
<1> SUFFICES ASSUME TInv, ExpandLine PROVE TInv'
  OBVIOUS
<1>1. LInv'
  BY ExpandLineKeeps DEF TInv
<1>2. OrderInv'
  BY <1>1, ExpandLineOrders
<1>3. /\ phase = "expand" /\ phase' = "expand" /\ UNCHANGED <<items, symbol_table, pc>>
      /\ DOMAIN items = {} /\ DOMAIN symbol_table = {} /\ pc = 0
  BY DEF TInv, PlacesInv, ExpandLine
<1>4. 0 <= MAX_IMAGE_BYTES
  BY AssemblerAssumption
<1>5. PlacesInv'
  BY <1>3, <1>4 DEF PlacesInv
<1>6. BytesInv'
  BY <1>3 DEF BytesInv, Emitting
<1> QED BY <1>1, <1>2, <1>5, <1>6 DEF TInv

LEMMA StartLayoutReaches == TInv /\ StartLayout => TInv'
<1> SUFFICES ASSUME TInv, StartLayout PROVE TInv'
  OBVIOUS
<1>1. LInv'
  BY StartLayoutKeeps DEF TInv
<1>2. /\ phase = "expand" /\ phase' = "layout" /\ at > Len(source) /\ at \in Nat /\ at' = 1
      /\ UNCHANGED <<source, expanded, items, symbol_table, pc, errors>>
      /\ DOMAIN items = {} /\ DOMAIN symbol_table = {} /\ pc = 0
      /\ source \in Seq(Line)
  BY DEF TInv, PlacesInv, LInv, IInv, CountersInv, StartLayout
<1>3. ~Emitting /\ ~Emitting' /\ (Clean' <=> Clean)
  BY <1>2 DEF Emitting, Clean, Reported
<1>4. \A n \in DOMAIN source : n < at
  BY <1>2
<1>5. OrderInv'
  <2>1. \A k \in DOMAIN expanded : FromSource(expanded[k]) => FromSource(expanded[k])'
    BY <1>2 DEF FromSource, Aimed, AllNamed, Named
  <2>2. \A n : LabelKept(n) => LabelKept(n)'
    BY <1>2 DEF LabelKept
  <2>3. \A j, k : InOrder(expanded[j], expanded[k]) => InOrder(expanded[j], expanded[k])'
    BY <1>2 DEF InOrder
  <2>4. \A k \in DOMAIN expanded' : FromSource(expanded[k])'
    BY <1>2, <2>1 DEF TInv, OrderInv
  <2>5. \A j, k \in DOMAIN expanded' : j < k => InOrder(expanded[j], expanded[k])'
    BY <1>2, <2>3 DEF TInv, OrderInv
  <2>6. Clean' => \A n \in DOMAIN source' : LabelKept(n)'
    BY <1>2, <1>3, <1>4, <2>2 DEF TInv, OrderInv
  <2> QED BY <2>4, <2>5, <2>6 DEF OrderInv
<1>6. PlacesInv'
  <2>1. \A k \in DOMAIN expanded : ~(k < 1)
    BY DEF TInv, LInv, IInv, ExpandedInv, IsSequence
  <2>2. LaidLines' = {}
    BY <1>2, <2>1 DEF LaidLines
  <2>3. 0 <= MAX_IMAGE_BYTES
    BY AssemblerAssumption
  <2> QED BY <1>2, <2>2, <2>3 DEF PlacesInv
<1>7. BytesInv'
  BY <1>3 DEF BytesInv
<1> QED BY <1>1, <1>5, <1>6, <1>7 DEF TInv

-----------------------------------------------------------------------------
(* Layout: a label keeps its place when more is laid behind it.            *)

LEMMA JoinedOne ==
  ASSUME NEW q, NEW e, IsSequence(q)
  PROVE  /\ Len(q) \in Nat /\ DOMAIN q = 1..Len(q)
         /\ IsSequence(q \o <<e>>)
         /\ DOMAIN (q \o <<e>>) = 1..Len(q) + 1
         /\ \A i \in 1..Len(q) : (q \o <<e>>)[i] = q[i]
         /\ (q \o <<e>>)[Len(q) + 1] = e
<1>1. IsSequence(<<e>>) /\ Len(<<e>>) = 1 /\ <<e>>[1] = e
  BY Singleton
<1> DEFINE o == <<e>>
<1> HIDE DEF o
<1>2. /\ Len(q) \in Nat /\ DOMAIN q = 1..Len(q)
      /\ IsSequence(q \o o)
      /\ DOMAIN (q \o o) = 1..Len(q) + Len(o)
      /\ \A i \in 1..Len(q) : (q \o o)[i] = q[i]
      /\ \A i \in 1..Len(o) : (q \o o)[Len(q) + i] = o[i]
  BY <1>1, Concatenation DEF o
<1>3. Len(o) = 1 /\ o[1] = e
  BY <1>1 DEF o
<1> QED BY <1>2, <1>3 DEF o

LEMMA PlacedAfterLabel ==
  ASSUME NEW q, NEW e, IsSequence(q), e.kind = "label", NEW p, NEW n, NEW a, PlacedIn(q, p, n, a)
  PROVE  PlacedIn(q \o <<e>>, p, n, a)
<1> DEFINE r == q \o <<e>>
<1>1. /\ Len(q) \in Nat /\ DOMAIN q = 1..Len(q) /\ DOMAIN r = 1..Len(q) + 1
      /\ \A i \in 1..Len(q) : r[i] = q[i]
      /\ r[Len(q) + 1] = e
  BY JoinedOne
<1> HIDE DEF r
<1>2. \A i \in DOMAIN q : i \in DOMAIN r /\ r[i] = q[i]
  BY <1>1
<1>3. \A i \in DOMAIN r : i \in DOMAIN q \/ r[i].kind = "label"
  BY <1>1
<1>4. NextOf(r, n) = NextOf(q, n)
  BY <1>2, <1>3 DEF NextOf
<1>5. \A i \in NextOf(q, n) : r[i] = q[i]
  BY <1>2 DEF NextOf
<1>6. PlacedIn(r, p, n, a)
  BY <1>4, <1>5 DEF PlacedIn
<1> QED BY <1>6 DEF r

LEMMA PlacedAfterItem ==
  ASSUME NEW q, NEW e, IsSequence(q), e.kind # "label", NEW p, e.address = p,
         NEW n, e.line >= n, NEW a, PlacedIn(q, p, n, a), NEW p2
  PROVE  PlacedIn(q \o <<e>>, p2, n, a)
<1> DEFINE r == q \o <<e>>
           m == Len(q) + 1
<1>1. /\ Len(q) \in Nat /\ DOMAIN q = 1..Len(q) /\ DOMAIN r = 1..Len(q) + 1
      /\ \A i \in 1..Len(q) : r[i] = q[i]
      /\ r[Len(q) + 1] = e
  BY JoinedOne
<1> SUFFICES PlacedIn(r, p2, n, a)
  OBVIOUS
<1> HIDE DEF r
<1>2. \A i \in DOMAIN q : i \in DOMAIN r /\ r[i] = q[i] /\ i <= m
  BY <1>1
<1>3. m \in DOMAIN r /\ r[m] = e /\ m <= m /\ \A i \in DOMAIN r : i \in DOMAIN q \/ i = m
  BY <1>1
<1> HIDE DEF m
<1>4. NextOf(r, n) = NextOf(q, n) \cup {m}
  BY <1>2, <1>3 DEF NextOf
<1>5. CASE NextOf(q, n) = {} /\ a = p
  BY <1>3, <1>4, <1>5 DEF PlacedIn
<1>6. CASE \E i \in NextOf(q, n) : (\A j \in NextOf(q, n) : i <= j) /\ a = q[i].address
  <2>1. PICK i \in NextOf(q, n) : (\A j \in NextOf(q, n) : i <= j) /\ a = q[i].address
    BY <1>6
  <2>2. i \in DOMAIN q
    BY DEF NextOf
  <2>3. i <= m /\ r[i] = q[i]
    BY <1>2, <2>2
  <2>4. \A j \in NextOf(r, n) : i <= j
    BY <1>4, <2>1, <2>3
  <2>5. i \in NextOf(r, n) /\ a = r[i].address
    BY <1>4, <2>1, <2>3
  <2> QED BY <2>4, <2>5 DEF PlacedIn
<1> QED BY <1>5, <1>6, Zenon DEF PlacedIn

LEMMA PlacedAtEnd ==
  ASSUME NEW q, NEW n, n \in Int, \A i \in DOMAIN q : q[i].line \in Int /\ q[i].line < n, NEW p
  PROVE  PlacedIn(q, p, n, p)
<1>1. \A i \in DOMAIN q : ~(q[i].line >= n)
  OBVIOUS
<1>2. NextOf(q, n) = {}
  BY <1>1 DEF NextOf
<1> QED BY <1>2 DEF PlacedIn

(* With the items of its label.                                            *)
LEMMA PlacedAfterLabels ==
  ASSUME NEW q, IsSequence(q), NEW l, NEW p, NEW n, NEW a, PlacedIn(q, p, n, a)
  PROVE  IsSequence(q \o LabelItems(l)) /\ PlacedIn(q \o LabelItems(l), p, n, a)
<1> DEFINE label == Item("label", [l EXCEPT !.op = ""], 0)
<1>1. label.kind = "label"
  BY DEF Item
<1>2. LabelItems(l) = <<label>> \/ LabelItems(l) = <<>>
  BY Zenon DEF LabelItems
<1> HIDE DEF label
<1>3. CASE LabelItems(l) = <<label>>
  BY <1>1, <1>3, PlacedAfterLabel, JoinedOne
<1>4. CASE LabelItems(l) = <<>>
  <2>1. q \o <<>> = q
    BY DEF IsSequence
  <2> QED BY <1>4, <2>1
<1> QED BY <1>2, <1>3, <1>4

(* The line that is laid, and those before it.                             *)
LEMMA LineLaid ==
  ASSUME TInv, LayLine
  PROVE  /\ phase = "layout" /\ phase' = "layout" /\ at' = at + 1
         /\ UNCHANGED <<source, expanded, image>> /\ symbol_table' = Defined(expanded[at])
         /\ at \in DOMAIN expanded /\ IsSequence(items) /\ FromSource(expanded[at])
         /\ LaidLines \subseteq DOMAIN expanded /\ LaidLines' = LaidLines \cup {at}
         /\ \A k \in DOMAIN expanded : k \in LaidLines \/ k = at \/ InOrder(expanded[at], expanded[k])
         /\ \A k \in LaidLines : InOrder(expanded[k], expanded[at])
         /\ \A k \in DOMAIN expanded : expanded[k].line \in Nat
         /\ ~Emitting
<1>1. /\ phase = "layout" /\ phase' = "layout" /\ at' = at + 1 /\ at \in Nat \ {0}
      /\ UNCHANGED <<source, expanded, image>> /\ symbol_table' = Defined(expanded[at])
      /\ at <= Len(expanded) /\ IsSequence(expanded) /\ IsSequence(items)
      /\ source \in Seq(Line)
  BY DEF TInv, LInv, IInv, CountersInv, ExpandedInv, ItemsInv, Laid, LayLine
<1>2. DOMAIN expanded = 1..Len(expanded) /\ Len(expanded) \in Nat /\ at \in DOMAIN expanded
  BY <1>1 DEF IsSequence
<1>3. LaidLines = {k \in DOMAIN expanded : k < at} /\ LaidLines' = {k \in DOMAIN expanded : k < at + 1}
  BY <1>1 DEF LaidLines
<1>4. LaidLines' = LaidLines \cup {at}
  <2>1. \A k \in DOMAIN expanded : k < at + 1 <=> k < at \/ k = at
    BY <1>1, <1>2
  <2> QED BY <1>2, <1>3, <2>1
<1>5. \A k \in DOMAIN expanded : k < at \/ k = at \/ at < k
  BY <1>1, <1>2
<1>6. \A j, k \in DOMAIN expanded : j < k => InOrder(expanded[j], expanded[k])
  BY DEF TInv, OrderInv
<1>7. \A k \in DOMAIN expanded : k \in LaidLines \/ k = at \/ InOrder(expanded[at], expanded[k])
  BY <1>2, <1>3, <1>5, <1>6
<1>8. \A k \in LaidLines : InOrder(expanded[k], expanded[at])
  BY <1>2, <1>3, <1>6
<1>9. \A k \in DOMAIN expanded : FromSource(expanded[k])
  BY DEF TInv, OrderInv
<1>10. \A k \in DOMAIN expanded : expanded[k].line \in Nat
  <2>1. DOMAIN source \subseteq Nat
    BY <1>1
  <2> QED BY <1>9, <2>1 DEF FromSource
<1> QED BY <1>1, <1>2, <1>3, <1>4, <1>7, <1>8, <1>9, <1>10 DEF Emitting

LEMMA OrderStays ==
  ASSUME TInv, LayLine, Clean' => Clean
  PROVE  OrderInv'
<1>1. phase = "layout" /\ phase' = "layout" /\ UNCHANGED <<source, expanded>>
  BY LineLaid
<1>2. \A k : FromSource(expanded[k]) => FromSource(expanded[k])'
  BY <1>1 DEF FromSource, Aimed, AllNamed, Named
<1>3. \A n : LabelKept(n) => LabelKept(n)'
  BY <1>1 DEF LabelKept
<1>4. \A j, k : InOrder(expanded[j], expanded[k]) => InOrder(expanded[j], expanded[k])'
  BY <1>1 DEF InOrder
<1>5. \A k \in DOMAIN expanded' : FromSource(expanded[k])'
  BY <1>1, <1>2 DEF TInv, OrderInv
<1>6. \A j, k \in DOMAIN expanded' : j < k => InOrder(expanded[j], expanded[k])'
  BY <1>1, <1>4 DEF TInv, OrderInv
<1>7. Clean' => \A n \in DOMAIN source' : LabelKept(n)'
  BY <1>1, <1>3 DEF TInv, OrderInv
<1> QED BY <1>5, <1>6, <1>7 DEF OrderInv

(* A name that is new is that of the first line that has it.               *)
LEMMA NewIsFirst ==
  ASSUME TInv, LayLine, Clean, Labels(expanded[at]), expanded[at].label \notin DOMAIN symbol_table
  PROVE  IsFirst(expanded[at].line, expanded[at].label)
<1> DEFINE l == expanded[at]
<1>1. FromSource(l) /\ l.label # "" /\ phase = "layout"
  BY LineLaid DEF Labels
<1>2. l.line \in DOMAIN source /\ source[l.line].label = l.label
  BY <1>1 DEF FromSource
<1>3. ASSUME NEW m \in DOMAIN source, source[m].label = l.label
      PROVE  l.line <= m
  <2>1. LabelKept(m)
    BY <1>1 DEF TInv, OrderInv
  <2>2. PICK k \in DOMAIN expanded : expanded[k].line = m /\ expanded[k].label = l.label
    BY <1>3, <2>1 DEF LabelKept
  <2>3. CASE k \in LaidLines
    BY <1>1, <2>2, <2>3 DEF TInv, PlacesInv
  <2>4. CASE k = at
    <3>1. l.line \in Nat /\ l.line = m
      BY <2>2, <2>4, LineLaid
    <3> QED BY <3>1
  <2>5. CASE InOrder(l, expanded[k])
    BY <2>2, <2>5 DEF InOrder
  <2> QED BY <2>3, <2>4, <2>5, LineLaid
<1> QED BY <1>2, <1>3 DEF IsFirst

(* Every name in the table has its place among the items, the one that is  *)
(* new at the end of them.                                                 *)
LEMMA NamesPlaced ==
  ASSUME TInv, LayLine, Clean, LabelErrors(expanded[at]) = <<>>,
         NEW s \in DOMAIN symbol_table'
  PROVE  \E k \in LaidLines' :
           /\ IsFirst(expanded[k].line, s) /\ expanded[at].line >= expanded[k].line
           /\ PlacedIn(items, pc, expanded[k].line, symbol_table'[s])
<1> DEFINE l == expanded[at]
<1>1. /\ phase = "layout" /\ symbol_table' = Defined(l) /\ LaidLines' = LaidLines \cup {at}
      /\ LaidLines \subseteq DOMAIN expanded /\ at \in DOMAIN expanded
      /\ \A k \in LaidLines : InOrder(expanded[k], l)
      /\ \A k \in DOMAIN expanded : expanded[k].line \in Nat
  BY LineLaid
<1> HIDE DEF l
<1>2. CASE s \in DOMAIN symbol_table
  <2>1. symbol_table'[s] = symbol_table[s]
    BY <1>1, <1>2 DEF Defined
  <2>2. Placed(s)
    BY <1>1, <1>2 DEF TInv, PlacesInv
  <2>3. PICK k \in LaidLines :
          IsFirst(expanded[k].line, s) /\ PlacedIn(items, pc, expanded[k].line, symbol_table[s])
    BY <2>2 DEF Placed
  <2>4. expanded[k].line \in Nat /\ l.line \in Nat /\ expanded[k].line <= l.line
    BY <1>1 DEF InOrder, l
  <2>5. l.line >= expanded[k].line
    BY <2>4
  <2> QED BY <1>1, <2>1, <2>3, <2>5 DEF l
<1>3. CASE s \notin DOMAIN symbol_table
  <2>1. Labels(l) /\ s = l.label /\ symbol_table'[s] = pc
    BY <1>1, <1>3 DEF Defined
  <2>2. IsFirst(l.line, s)
    BY <1>3, <2>1, NewIsFirst DEF l
  <2>3. l.line \in Nat /\ l.line >= l.line
    BY <1>1 DEF l
  <2>4. ASSUME NEW i \in DOMAIN items
        PROVE  items[i].line \in Int /\ items[i].line < l.line
    <3>1. PICK k \in LaidLines : items[i].line = expanded[k].line
      BY DEF TInv, PlacesInv
    <3>2. InOrder(expanded[k], l) /\ expanded[k].line \in Nat
      BY <1>1
    <3>3. l.label # ""
      BY <2>1 DEF Labels
    <3>4. expanded[k].line < l.line
      BY <3>2, <3>3 DEF InOrder
    <3> QED BY <3>1, <3>2, <3>4
  <2>5. PlacedIn(items, pc, l.line, pc)
    <3>1. l.line \in Int
      BY <2>3
    <3>2. \A i \in DOMAIN items : items[i].line \in Int /\ items[i].line < l.line
      BY <2>4
    <3> QED BY <3>1, <3>2, PlacedAtEnd, Zenon
  <2> QED BY <1>1, <2>1, <2>2, <2>3, <2>5 DEF l
<1> QED BY <1>2, <1>3

(* What a step of the layout leaves to be shown of the items: e is the one *)
(* it adds behind those of a label, if it adds one.                        *)
LEMMA ItemsStayAimed ==
  ASSUME TInv, LayLine, NEW e, ItemAimed(e), e.line = expanded[at].line,
         \/ items' = items \o LabelItems(expanded[at])
         \/ items' = items \o LabelItems(expanded[at]) \o <<e>>
  PROVE  \A i \in DOMAIN items' : ItemAimed(items'[i]) /\ \E k \in LaidLines' : items'[i].line = expanded[k].line
<1> DEFINE l == expanded[at]
           label == Item("label", [l EXCEPT !.op = ""], 0)
           Good(x) == ItemAimed(x) /\ \E k \in LaidLines' : x.line = expanded[k].line
<1>1. IsSequence(items) /\ FromSource(l) /\ LaidLines' = LaidLines \cup {at}
  BY LineLaid
<1>2. \A i \in DOMAIN items : Good(items[i])
  BY <1>1 DEF TInv, PlacesInv
<1>3. Good(e)
  BY <1>1
<1>4. Good(label)
  <2>1. label.op = "" /\ label.line = l.line
    BY <1>1 DEF Item, FromSource
  <2> HIDE DEF label
  <2>2. ~Aims(label.op)
    BY <2>1, RelativeNames DEF Aims
  <2> QED BY <1>1, <2>1, <2>2 DEF ItemAimed, Aimed
<1>5. LabelItems(l) = <<label>> \/ LabelItems(l) = <<>>
  BY Zenon DEF LabelItems
<1> HIDE DEF label, Good
<1>6. IsSequence(LabelItems(l)) /\ Range(LabelItems(l)) \subseteq {label}
  BY <1>5, ElementsOfOne, ElementsOfNone
<1> DEFINE q == items \o LabelItems(l)
<1>7. IsSequence(q) /\ Range(q) \subseteq Range(items) \cup {label}
  BY <1>1, <1>6, ElementsOfBoth
<1>8. items' = q \/ items' = q \o <<e>>
  OBVIOUS
<1> HIDE DEF q, l
<1>9. Range(items') \subseteq Range(items) \cup {label, e}
  <2>1. Range(q \o <<e>>) = Range(q) \cup {e}
    BY <1>7, ElementsOfBoth, ElementsOfOne
  <2> QED BY <1>7, <1>8, <2>1
<1>10. \A x \in Range(items') : Good(x)
  <2>1. \A x \in Range(items) : Good(x)
    BY <1>2 DEF Range
  <2> QED BY <1>3, <1>4, <1>9, <2>1
<1>11. \A i \in DOMAIN items' : Good(items'[i])
  BY <1>10 DEF Range
<1> QED BY <1>11 DEF Good

LEMMA PlacesStay ==
  ASSUME TInv, LayLine, NEW e, ItemAimed(e), e.line = expanded[at].line, e.kind # "label", e.address = pc,
         \/ items' = items \o LabelItems(expanded[at]) /\ pc' = pc
         \/ items' = items \o LabelItems(expanded[at]) \o <<e>>,
         Clean' => Clean /\ LabelErrors(expanded[at]) = <<>> /\ pc' <= MAX_IMAGE_BYTES
  PROVE  PlacesInv'
<1> DEFINE l == expanded[at]
<1>1. /\ phase = "layout" /\ phase' = "layout" /\ expanded' = expanded /\ source' = source
      /\ symbol_table' = Defined(l) /\ LaidLines' = LaidLines \cup {at} /\ IsSequence(items)
  BY LineLaid
<1>2. \A i \in DOMAIN items' : ItemAimed(items'[i]) /\ \E k \in LaidLines' : items'[i].line = expanded'[k].line
  BY <1>1, ItemsStayAimed
<1> HIDE DEF l
<1>3. ASSUME Clean', NEW k \in LaidLines'
      PROVE  expanded[k].label # EmptyLabel /\ (expanded[k].label # "" => expanded[k].label \in DOMAIN symbol_table')
  <2>1. DOMAIN symbol_table' = DOMAIN symbol_table \cup (IF Labels(l) THEN {l.label} ELSE {})
    BY <1>1 DEF Defined
  <2>2. CASE k \in LaidLines
    BY <1>1, <1>3, <2>1, <2>2 DEF TInv, PlacesInv
  <2>3. CASE k = at
    <3>1. LabelErrors(l) = <<>>
      BY <1>3 DEF l
    <3>2. <<l.line>> # <<>>
      BY ElementsOfOne, ElementsOfNone
    <3>3. l.label # EmptyLabel
      BY <3>1, <3>2 DEF LabelErrors
    <3> QED BY <2>1, <2>3, <3>3 DEF Labels, l
  <2> QED BY <1>1, <2>2, <2>3
<1>4. ASSUME Clean', NEW s \in DOMAIN symbol_table' PROVE Placed(s)'
  <2>1. PICK k \in LaidLines' :
          /\ IsFirst(expanded[k].line, s) /\ l.line >= expanded[k].line
          /\ PlacedIn(items, pc, expanded[k].line, symbol_table'[s])
    BY <1>4, NamesPlaced DEF l
  <2> DEFINE q == items \o LabelItems(l)
             n == expanded[k].line
             a == symbol_table'[s]
  <2>2. IsSequence(q) /\ PlacedIn(q, pc, n, a)
    BY <1>1, <2>1, PlacedAfterLabels
  <2>3. (items' = q /\ pc' = pc) \/ items' = q \o <<e>>
    BY DEF l
  <2>4. e.line >= n
    BY <2>1 DEF l
  <2> HIDE DEF q, n, a
  <2>5. PlacedIn(q \o <<e>>, pc', n, a)
    BY <2>2, <2>4, PlacedAfterItem
  <2>6. PlacedIn(items', pc', n, a)
    BY <2>2, <2>3, <2>5
  <2>7. IsFirst(expanded[k].line, s)'
    BY <1>1, <2>1 DEF IsFirst
  <2>8. PlacedIn(items, pc, expanded[k].line, symbol_table[s])'
    BY <1>1, <2>6 DEF n, a, PlacedIn, NextOf
  <2> QED BY <1>1, <2>1, <2>7, <2>8 DEF Placed, IsFirst
<1>6. \A i \in DOMAIN items' : ItemAimed(items[i])' /\ \E k \in LaidLines' : items'[i].line = expanded'[k].line
  BY <1>2 DEF ItemAimed, Aimed, AllNamed, Named
<1>7. (phase # "expand")' /\ Clean' =>
       /\ \A k \in LaidLines' : /\ expanded'[k].label # EmptyLabel
                                /\ expanded'[k].label # "" => expanded'[k].label \in DOMAIN symbol_table'
       /\ \A s \in DOMAIN symbol_table' : Placed(s)'
  BY <1>1, <1>3, <1>4
<1>8. Clean' => pc' <= MAX_IMAGE_BYTES
  OBVIOUS
<1> QED BY <1>1, <1>6, <1>7, <1>8 DEF PlacesInv

LEMMA NoLabelError ==
  ASSUME NEW l, IsSequence(errors), NEW more, IsSequence(more)
  PROVE  /\ Range(errors \o LabelErrors(l)) = {} => Reported = {} /\ LabelErrors(l) = <<>>
         /\ Range(errors \o LabelErrors(l) \o more) = {} =>
              Reported = {} /\ LabelErrors(l) = <<>> /\ Range(more) = {}
<1>1. LabelErrors(l) = <<l.line>> \/ LabelErrors(l) = <<>>
  BY DEF LabelErrors
<1>2. IsSequence(LabelErrors(l)) /\ (LabelErrors(l) = <<>> \/ Range(LabelErrors(l)) = {l.line})
  BY <1>1, ElementsOfOne, ElementsOfNone
<1> DEFINE longer == errors \o LabelErrors(l)
<1>3. IsSequence(longer) /\ Range(longer) = Range(errors) \cup Range(LabelErrors(l))
  BY <1>2, ElementsOfBoth
<1> HIDE DEF longer
<1>4. Range(longer \o more) = Range(longer) \cup Range(more)
  BY <1>3, ElementsOfBoth
<1>5. Range(longer) = {} => Reported = {} /\ LabelErrors(l) = <<>>
  BY <1>2, <1>3 DEF Reported
<1>6. Range(longer \o more) = {} => Reported = {} /\ LabelErrors(l) = <<>> /\ Range(more) = {}
  BY <1>4, <1>5
<1> QED BY <1>5, <1>6 DEF longer

LEMMA LayReaches ==
  ASSUME TInv, LayLine, LInv', NEW e, ItemAimed(e), e.line = expanded[at].line, e.kind # "label", e.address = pc,
         \/ items' = items \o LabelItems(expanded[at]) /\ pc' = pc
         \/ items' = items \o LabelItems(expanded[at]) \o <<e>>,
         Reported' = {} => Reported = {} /\ LabelErrors(expanded[at]) = <<>> /\ pc' <= MAX_IMAGE_BYTES
  PROVE  TInv'
<1>1. ~Emitting' /\ phase' = "layout"
  BY LineLaid DEF Emitting
<1>2. Clean' => Clean /\ LabelErrors(expanded[at]) = <<>> /\ pc' <= MAX_IMAGE_BYTES
  BY <1>1 DEF Clean
<1>3. OrderInv'
  BY <1>2, OrderStays
<1>4. PlacesInv'
  BY <1>2, PlacesStay
<1>5. BytesInv'
  BY <1>1 DEF BytesInv
<1> QED BY <1>3, <1>4, <1>5 DEF TInv

(* While nothing is reported the counter is inside the largest image.      *)
LEMMA InsideImage ==
  ASSUME TInv, LayLine, Reported = {}
  PROVE  pc <= MAX_IMAGE_BYTES
BY DEF TInv, PlacesInv, Clean

LEMMA LayBlankReaches == TInv /\ LayBlank => TInv'
<1> SUFFICES ASSUME TInv, LayBlank PROVE TInv'
  OBVIOUS
<1> DEFINE l == expanded[at]
           e == Item("org", [l EXCEPT !.op = ""], 0)
<1>1. /\ LayLine /\ l.op = "" /\ pc' = pc
      /\ items' = items \o LabelItems(l) /\ errors' = errors \o LabelErrors(l)
  BY DEF LayBlank
<1>2. LInv' /\ IsSequence(errors)
  BY LayBlankKeeps DEF TInv, LInv, ErrorsInv
<1>3. e.op = "" /\ e.line = l.line /\ e.kind # "label" /\ e.address = pc
  BY <1>1, LineLaid DEF FromSource, Item
<1> HIDE DEF e
<1>4. ItemAimed(e)
  BY <1>3, RelativeNames DEF ItemAimed, Aimed, Aims
<1>5. Reported' = {} => Reported = {} /\ LabelErrors(l) = <<>> /\ pc' <= MAX_IMAGE_BYTES
  BY <1>1, <1>2, NoLabelError, ElementsOfNone, InsideImage DEF Reported
<1> QED BY <1>1, <1>2, <1>3, <1>4, <1>5, LayReaches

LEMMA LayBareColonReaches == TInv /\ LayBareColon => TInv'
<1> SUFFICES ASSUME TInv, LayBareColon PROVE TInv'
  OBVIOUS
<1>1. /\ phase = "layout" /\ phase' = "aborted" /\ errors' = Append(errors, expanded[at].line)
      /\ UNCHANGED <<source, at, expanded, pc, items, symbol_table, image>>
  BY DEF LayBareColon
<1>2. LInv' /\ IsSequence(errors)
  BY LayBareColonKeeps DEF TInv, LInv, ErrorsInv
<1>3. ~Emitting' /\ ~Clean'
  <2>1. Reported' # {}
    BY <1>1, <1>2, ElementsOfLonger DEF Reported
  <2> QED BY <1>1, <2>1 DEF Clean, Emitting
<1>4. OrderInv'
  <2>1. \A k : FromSource(expanded[k]) => FromSource(expanded[k])'
    BY <1>1 DEF FromSource, Aimed, AllNamed, Named
  <2>2. \A j, k : InOrder(expanded[j], expanded[k]) => InOrder(expanded[j], expanded[k])'
    BY <1>1 DEF InOrder
  <2>3. \A k \in DOMAIN expanded' : FromSource(expanded[k])'
    BY <1>1, <2>1 DEF TInv, OrderInv
  <2>4. \A j, k \in DOMAIN expanded' : j < k => InOrder(expanded[j], expanded[k])'
    BY <1>1, <2>2 DEF TInv, OrderInv
  <2> QED BY <1>3, <2>3, <2>4 DEF OrderInv
<1>5. PlacesInv'
  <2>1. \A i : ItemAimed(items[i]) => ItemAimed(items[i])'
    BY <1>1 DEF ItemAimed, Aimed, AllNamed, Named
  <2>2. LaidLines \subseteq LaidLines'
    BY <1>1 DEF LaidLines
  <2> QED BY <1>1, <1>3, <2>1, <2>2 DEF TInv, PlacesInv
<1>6. BytesInv'
  BY <1>3 DEF BytesInv
<1> QED BY <1>2, <1>4, <1>5, <1>6 DEF TInv

LEMMA LayOrgReaches == TInv /\ LayOrg => TInv'
<1> SUFFICES ASSUME TInv, LayOrg PROVE TInv'
  OBVIOUS
<1> DEFINE l == expanded[at]
           e == Item("org", l, 0)
<1>1. /\ LayLine /\ l.op = ".org" /\ items' = items \o LabelItems(l) \o <<e>>
      /\ \/ pc' \in Origin(l.operands) /\ errors' = errors \o LabelErrors(l)
         \/ pc' = pc /\ errors' = errors \o LabelErrors(l) \o <<l.line>>
  BY DEF LayOrg
<1>2. LInv' /\ IsSequence(errors)
  BY LayOrgKeeps DEF TInv, LInv, ErrorsInv
<1>3. e.op = ".org" /\ e.line = l.line /\ e.kind # "label" /\ e.address = pc
  BY <1>1 DEF Item
<1> HIDE DEF e
<1>4. ItemAimed(e)
  BY <1>3, RelativeNames DEF ItemAimed, Aimed, Aims
<1>5. \A n \in Origin(l.operands) : n <= MAX_IMAGE_BYTES
  <2>1. \A n \in Origin(l.operands) : n \in pc..MAX_IMAGE_BYTES
    BY DEF Origin
  <2>2. pc \in Nat
    BY DEF TInv, LInv, IInv, CountersInv
  <2> HIDE DEF l
  <2> QED BY <2>1, <2>2, AssemblerAssumption
<1> HIDE DEF l
<1>6. Reported' = {} => Reported = {} /\ LabelErrors(l) = <<>> /\ pc' <= MAX_IMAGE_BYTES
  <2> DEFINE more == <<l.line>>
  <2>1. IsSequence(more) /\ Range(more) # {}
    BY ElementsOfOne
  <2>2. Reported' = Range(errors')
    BY DEF Reported
  <2>3. CASE pc' \in Origin(l.operands) /\ errors' = errors \o LabelErrors(l)
    BY <1>2, <1>5, <2>2, <2>3, NoLabelError, ElementsOfNone
  <2>4. CASE pc' = pc /\ errors' = errors \o LabelErrors(l) \o more
    <3> HIDE DEF more
    <3> QED BY <1>2, <2>1, <2>2, <2>4, NoLabelError
  <2> QED BY <1>1, <2>3, <2>4
<1> QED BY <1>1, <1>2, <1>3, <1>4, <1>6, LayReaches DEF l

LEMMA LayStatementReaches == TInv /\ LayStatement => TInv'
<1> SUFFICES ASSUME TInv, LayStatement PROVE TInv'
  OBVIOUS
<1> DEFINE l == expanded[at]
           kind == IF l.op \in Directives THEN "directive" ELSE "instruction"
           e == Item(kind, l, Size(l.op, l.operands))
           more == IF pc' > MAX_IMAGE_BYTES THEN <<l.line>> ELSE <<>>
<1>1. /\ LayLine /\ items' = items \o LabelItems(l) \o <<e>>
      /\ errors' = errors \o LabelErrors(l) \o more
  BY DEF LayStatement
<1>2. LInv' /\ IsSequence(errors) /\ pc' \in Nat
  BY LayStatementKeeps DEF TInv, LInv, IInv, CountersInv, ErrorsInv
<1>3. /\ e.op = l.op /\ e.operands = l.operands /\ e.line = l.line /\ e.address = pc
      /\ e.kind = (IF l.op \in Directives THEN "directive" ELSE "instruction")
  BY DEF Item
<1>4. IsSequence(more) /\ (Range(more) = {} => ~(pc' > MAX_IMAGE_BYTES))
  BY ElementsOfOne, ElementsOfNone
<1>5. Aimed(l)
  BY <1>1, LineLaid DEF FromSource
<1> HIDE DEF l, kind, e, more
<1>6. Aims(l.op) => l.op \notin Directives
  BY RelativeRows, RelativeNames DEF Aims, Relative, Directives, WIDTH
<1>7. ItemAimed(e) /\ e.kind # "label"
  BY <1>3, <1>5, <1>6 DEF ItemAimed, Aimed
<1>8. Reported' = {} => Reported = {} /\ LabelErrors(l) = <<>> /\ Range(more) = {}
  BY <1>1, <1>2, <1>4, NoLabelError DEF Reported
<1>9. ~(pc' > MAX_IMAGE_BYTES) => pc' <= MAX_IMAGE_BYTES
  BY <1>2, AssemblerAssumption
<1> QED BY <1>1, <1>2, <1>3, <1>4, <1>7, <1>8, <1>9, LayReaches DEF l

LEMMA EndLayoutReaches == TInv /\ EndLayout => TInv'
<1> SUFFICES ASSUME TInv, EndLayout PROVE TInv'
  OBVIOUS
<1>1. /\ phase = "layout" /\ at' = 1 /\ at > Len(expanded) /\ at \in Nat
      /\ phase' = IF errors = <<>> THEN "emit" ELSE "layout_failed"
      /\ UNCHANGED <<source, expanded, pc, items, symbol_table, errors>>
      /\ IsSequence(expanded) /\ IsSequence(errors)
  BY DEF TInv, LInv, IInv, CountersInv, ExpandedInv, ErrorsInv, EndLayout
<1>2. LInv'
  BY EndLayoutKeeps DEF TInv
<1>3. Clean' => Clean
  <2>1. errors = <<>> => Reported = {}
    BY ElementsOfNone DEF Reported
  <2>2. CASE errors = <<>>
    BY <2>1, <2>2 DEF Clean
  <2>3. CASE errors # <<>>
    BY <1>1, <2>3 DEF Clean, Emitting, Reported
  <2> QED BY <2>2, <2>3
<1>4. LaidLines' = LaidLines
  <2>1. \A k \in DOMAIN expanded : k < at
    BY <1>1 DEF IsSequence
  <2> QED BY <1>1, <2>1 DEF LaidLines
<1>5. phase # "expand" /\ phase' # "expand"
  BY <1>1
<1>6. OrderInv'
  <2>1. \A k : FromSource(expanded[k]) => FromSource(expanded[k])'
    BY <1>1, <1>5 DEF FromSource, Aimed, AllNamed, Named
  <2>2. \A n : LabelKept(n) => LabelKept(n)'
    BY <1>1 DEF LabelKept
  <2>3. \A j, k : InOrder(expanded[j], expanded[k]) => InOrder(expanded[j], expanded[k])'
    BY <1>1 DEF InOrder
  <2>4. \A k \in DOMAIN expanded' : FromSource(expanded[k])'
    BY <1>1, <2>1 DEF TInv, OrderInv
  <2>5. \A j, k \in DOMAIN expanded' : j < k => InOrder(expanded[j], expanded[k])'
    BY <1>1, <2>3 DEF TInv, OrderInv
  <2>6. Clean' => \A n \in DOMAIN source' : LabelKept(n)'
    BY <1>1, <1>3, <1>5, <2>2 DEF TInv, OrderInv
  <2> QED BY <2>4, <2>5, <2>6 DEF OrderInv
<1>7. PlacesInv'
  <2>1. \A s : Placed(s) => Placed(s)'
    BY <1>1, <1>4 DEF Placed, IsFirst, PlacedIn, NextOf
  <2>2. \A i : ItemAimed(items[i]) => ItemAimed(items[i])'
    BY <1>1 DEF ItemAimed, Aimed, AllNamed, Named
  <2> QED BY <1>1, <1>3, <1>4, <1>5, <2>1, <2>2 DEF TInv, PlacesInv
<1>8. BytesInv'
  BY <1>1 DEF BytesInv
<1> QED BY <1>2, <1>6, <1>7, <1>8 DEF TInv

-----------------------------------------------------------------------------
(* Emission: data, once written, stays.                                    *)

LEMMA EmissionReaches ==
  ASSUME TInv, phase = "emit", phase' \in {"emit", "written", "emit_failed"},
         UNCHANGED <<source, expanded, pc, items, symbol_table>>, LInv', BytesInv'
  PROVE  TInv'
<1>1. Clean /\ LaidLines' = LaidLines /\ phase # "expand" /\ phase' # "expand"
  BY DEF Clean, Emitting, LaidLines
<1>2. OrderInv'
  <2>1. \A k : FromSource(expanded[k]) => FromSource(expanded[k])'
    BY <1>1 DEF FromSource, Aimed, AllNamed, Named
  <2>2. \A n : LabelKept(n) => LabelKept(n)'
    BY DEF LabelKept
  <2>3. \A j, k : InOrder(expanded[j], expanded[k]) => InOrder(expanded[j], expanded[k])'
    BY DEF InOrder
  <2>4. \A k \in DOMAIN expanded' : FromSource(expanded[k])'
    BY <2>1 DEF TInv, OrderInv
  <2>5. \A j, k \in DOMAIN expanded' : j < k => InOrder(expanded[j], expanded[k])'
    BY <2>3 DEF TInv, OrderInv
  <2>6. \A n \in DOMAIN source' : LabelKept(n)'
    BY <1>1, <2>2 DEF TInv, OrderInv
  <2> QED BY <2>4, <2>5, <2>6 DEF OrderInv
<1>3. PlacesInv'
  <2>1. \A s : Placed(s) => Placed(s)'
    BY <1>1 DEF Placed, IsFirst, PlacedIn, NextOf
  <2>2. \A i : ItemAimed(items[i]) => ItemAimed(items[i])'
    BY DEF ItemAimed, Aimed, AllNamed, Named
  <2> QED BY <1>1, <2>1, <2>2 DEF TInv, PlacesInv
<1> QED BY <1>2, <1>3 DEF TInv

(* An item is in error, or not, for good.                                  *)
LEMMA FaultsStay ==
  ASSUME UNCHANGED <<items, symbol_table>>
  PROVE  \A i : /\ (Faulty(i)' <=> Faulty(i)) /\ (Emits(i)' <=> Emits(i))
                /\ Data(items[i], symbol_table)' = Data(items[i], symbol_table)
BY DEF Faulty, Emits

(* One item further, of which there is no data to be found.                *)
LEMMA BytesStay ==
  ASSUME TInv, phase = "emit", at' = at + 1, ~Emits(at) \/ Faulty(at),
         UNCHANGED <<items, symbol_table, image>>
  PROVE  BytesInv'
<1>1. at \in Nat \ {0}
  BY DEF TInv, LInv, IInv, CountersInv
<1>2. \A i \in 1..at' - 1 : i \in 1..at - 1 \/ i = at
  BY <1>1
<1>3. \A i \in 1..at - 1 : Emits(i) /\ ~Faulty(i) => \E d \in Data(items[i], symbol_table) : HasData(i, d)
  BY DEF TInv, BytesInv, Emitting
<1>4. \A i, d : HasData(i, d)' <=> HasData(i, d)
  BY DEF HasData
<1>5. \A i \in 1..at' - 1 :
        Emits(i)' /\ ~Faulty(i)' => \E d \in Data(items[i], symbol_table)' : HasData(i, d)'
  BY <1>2, <1>3, <1>4, FaultsStay
<1> QED BY <1>5 DEF BytesInv

LEMMA EmitNothingReaches == TInv /\ EmitNothing => TInv'
<1> SUFFICES ASSUME TInv, EmitNothing PROVE TInv'
  OBVIOUS
<1>1. LInv' /\ ~Emits(at)
  BY EmitNothingKeeps DEF TInv, EmitNothing, Emits
<1>2. BytesInv'
  BY <1>1, BytesStay DEF EmitNothing
<1> QED BY <1>1, <1>2, EmissionReaches DEF EmitNothing

LEMMA EmitErrorReaches == TInv /\ EmitError => TInv'
<1> SUFFICES ASSUME TInv, EmitError PROVE TInv'
  OBVIOUS
<1>1. LInv' /\ Faulty(at)
  BY EmitErrorKeeps DEF TInv, EmitError, Faulty, Emits
<1>2. BytesInv'
  BY <1>1, BytesStay DEF EmitError
<1> QED BY <1>1, <1>2, EmissionReaches DEF EmitError

(* Data is written behind that of the items before it.                     *)
LEMMA DataStays ==
  ASSUME TInv, phase = "emit", at <= Len(items), NEW d, DOMAIN d \subseteq Nat,
         image' = Written(image, items[at].address, d), items' = items,
         NEW i \in 1..at - 1, Emits(i), ~Faulty(i),
         NEW c \in Data(items[i], symbol_table), HasData(i, c)
  PROVE  HasData(i, c)'
<1>1. /\ at \in Nat \ {0} /\ Laid(items, pc) /\ at \in DOMAIN items /\ i \in DOMAIN items /\ i < at
      /\ DOMAIN image.bytes = Filled
  BY DEF TInv, LInv, IInv, CountersInv, ItemsInv, ImageInv, Emitting, Laid, IsSequence
<1>2. /\ ItemInv(items[i], pc) /\ ItemInv(items[at], pc)
      /\ items[i].address + items[i].size <= items[at].address
  BY <1>1 DEF Laid
<1>3. DOMAIN c = 0..items[i].size - 1
  BY <1>2, DataFills DEF Emits
<1>4. Reserved(i) \subseteq DOMAIN image.bytes
  BY <1>1 DEF Filled
<1>5. items[i].address \in Nat /\ items[i].size \in Nat /\ items[at].address \in Nat
  BY <1>2 DEF ItemInv
<1>6. ASSUME NEW k \in DOMAIN c
      PROVE  image'.bytes[items[i].address + k] = c[k]
  <2> DEFINE a == items[i].address + k
  <2> DEFINE p == items[i].address
             n == items[i].size
             q == items[at].address
  <2>a. k \in 0..n - 1 /\ p \in Nat /\ n \in Nat /\ q \in Nat /\ p + n <= q
    BY <1>2, <1>3, <1>5
  <2>1. p + k \in p..p + n - 1 /\ p + k < q /\ p + k \in Nat
    <3> HIDE DEF p, n, q
    <3> QED BY <2>a
  <2>2. a \in DOMAIN image.bytes
    BY <1>4, <2>1 DEF Reserved
  <2>3. a < items[at].address /\ a \in Nat
    BY <2>1
  <2>4. a - items[at].address \notin DOMAIN d
    <3>1. ~(a - items[at].address >= 0)
      BY <1>5, <2>3
    <3> QED BY <3>1
  <2>5. image.bytes[a] = c[k]
    BY DEF HasData
  <2> HIDE DEF a
  <2>6. image'.bytes[a] = image.bytes[a]
    BY <2>2, <2>4 DEF Written
  <2> QED BY <2>5, <2>6 DEF a
<1> QED BY <1>6 DEF HasData

LEMMA DataWritten ==
  ASSUME NEW d, NEW a \in Nat, DOMAIN d \subseteq Nat, NEW old, NEW k \in DOMAIN d
  PROVE  Written(old, a, d).bytes[a + k] = d[k]
<1>1. (a + k) - a = k
  OBVIOUS
<1> QED BY <1>1 DEF Written

LEMMA EmitDataReaches == TInv /\ EmitData => TInv'
<1> SUFFICES ASSUME TInv, EmitData PROVE TInv'
  OBVIOUS
<1>1. /\ phase = "emit" /\ phase' = "emit" /\ at <= Len(items) /\ at' = at + 1
      /\ items[at].kind \in {"directive", "instruction"}
      /\ UNCHANGED <<source, expanded, pc, items, symbol_table>>
  BY DEF EmitData
<1>2. PICK d \in Data(items[at], symbol_table) : image' = Written(image, items[at].address, d)
  BY DEF EmitData
<1>3. LInv'
  BY EmitDataKeeps DEF TInv
<1>4. ItemInv(items[at], pc) /\ at \in Nat \ {0}
  BY <1>1, ItemAt DEF TInv, LInv, IInv, CountersInv
<1>5. DOMAIN d = 0..items[at].size - 1 /\ items[at].size \in Nat /\ items[at].address \in Nat
  BY <1>1, <1>4, DataFills DEF ItemInv
<1>6. DOMAIN d \subseteq Nat
  BY <1>5
<1>7. ASSUME NEW i \in 1..at' - 1, Emits(i), ~Faulty(i)
      PROVE  \E c \in Data(items[i], symbol_table) : \A k \in DOMAIN c : image'.bytes[items[i].address + k] = c[k]
  <2>1. CASE i = at
    <3>1. \A k \in DOMAIN d : image'.bytes[items[at].address + k] = d[k]
      BY <1>2, <1>5, <1>6, DataWritten
    <3> QED BY <2>1, <3>1
  <2>2. CASE i \in 1..at - 1
    <3>1. PICK c \in Data(items[i], symbol_table) : HasData(i, c)
      BY <1>1, <1>7, <2>2 DEF TInv, BytesInv, Emitting
    <3>2. HasData(i, c)'
      BY <1>1, <1>2, <1>6, <1>7, <2>2, <3>1, DataStays
    <3> QED BY <1>1, <3>2 DEF HasData
  <2> QED BY <1>1, <1>4, <2>1, <2>2
<1>8. BytesInv'
  <2>1. \A i \in 1..at' - 1 :
          Emits(i)' /\ ~Faulty(i)' => \E c \in Data(items[i], symbol_table)' : HasData(i, c)'
    <3>1. \A i, c : HasData(i, c)' <=> \A k \in DOMAIN c : image'.bytes[items[i].address + k] = c[k]
      BY <1>1 DEF HasData
    <3> QED BY <1>1, <1>7, <3>1, FaultsStay
  <2> QED BY <2>1 DEF BytesInv
<1> QED BY <1>1, <1>3, <1>8, EmissionReaches

LEMMA FinishReaches == TInv /\ Finish => TInv'
<1> SUFFICES ASSUME TInv, Finish PROVE TInv'
  OBVIOUS
<1>1. /\ phase = "emit" /\ phase' \in {"written", "emit_failed"}
      /\ UNCHANGED <<source, at, expanded, pc, items, symbol_table>>
      /\ image = [size |-> image.size, bytes |-> image.bytes]
  BY DEF Finish, TInv, LInv, IInv, ImageInv
<1>2. LInv'
  BY FinishKeeps DEF TInv
<1>3. image'.bytes = image.bytes
  BY <1>1 DEF Finish
<1>4. BytesInv'
  <2>1. \A i, d : HasData(i, d)' <=> HasData(i, d)
    BY <1>1, <1>3 DEF HasData
  <2>2. \A i \in 1..at - 1 : Emits(i) /\ ~Faulty(i) => \E d \in Data(items[i], symbol_table) : HasData(i, d)
    BY <1>1 DEF TInv, BytesInv, Emitting
  <2>3. \A i \in 1..at' - 1 :
          Emits(i)' /\ ~Faulty(i)' => \E d \in Data(items[i], symbol_table)' : HasData(i, d)'
    BY <1>1, <2>1, <2>2, FaultsStay
  <2> QED BY <2>3 DEF BytesInv
<1> QED BY <1>1, <1>2, <1>4, EmissionReaches

LEMMA InitReaches == Init => TInv
<1> SUFFICES ASSUME Init PROVE TInv
  OBVIOUS
<1>1. /\ phase = "expand" /\ at = 1 /\ pc = 0 /\ expanded = <<>> /\ items = <<>>
      /\ symbol_table = [s \in {} |-> 0] /\ source \in Programs
  BY DEF Init
<1>2. LInv /\ 0 <= MAX_IMAGE_BYTES /\ source \in Seq(Line)
  BY <1>1, InitKeeps, AssemblerAssumption
<1>3. DOMAIN expanded = {} /\ DOMAIN items = {} /\ DOMAIN symbol_table = {}
  BY <1>1
<1>4. \A n \in DOMAIN source : ~(n < at)
  BY <1>1, <1>2
<1>5. OrderInv
  BY <1>1, <1>3, <1>4 DEF OrderInv
<1>6. PlacesInv
  BY <1>1, <1>2, <1>3 DEF PlacesInv
<1>7. BytesInv
  BY <1>1 DEF BytesInv, Emitting
<1> QED BY <1>2, <1>5, <1>6, <1>7 DEF TInv

LEMMA StutterReaches == TInv /\ UNCHANGED vars => TInv'
<1> SUFFICES ASSUME TInv, UNCHANGED vars PROVE TInv'
  OBVIOUS
<1>1. UNCHANGED <<source, phase, at, expanded, pc, items, symbol_table, errors, image>>
  BY DEF vars
<1>2. LInv'
  BY StutterKeeps DEF TInv
<1>3. (Clean' <=> Clean) /\ LaidLines' = LaidLines
  BY <1>1 DEF Clean, Emitting, Reported, LaidLines
<1>4. OrderInv'
  <2>1. \A k : FromSource(expanded[k]) => FromSource(expanded[k])'
    BY <1>1 DEF FromSource, Aimed, AllNamed, Named
  <2>2. \A n : LabelKept(n) => LabelKept(n)'
    BY <1>1 DEF LabelKept
  <2>3. \A j, k : InOrder(expanded[j], expanded[k]) => InOrder(expanded[j], expanded[k])'
    BY <1>1 DEF InOrder
  <2>4. \A k \in DOMAIN expanded' : FromSource(expanded[k])'
    BY <1>1, <2>1 DEF TInv, OrderInv
  <2>5. \A j, k \in DOMAIN expanded' : j < k => InOrder(expanded[j], expanded[k])'
    BY <1>1, <2>3 DEF TInv, OrderInv
  <2>6. Clean' => \A n \in DOMAIN source' : (phase' = "expand" => n < at') => LabelKept(n)'
    BY <1>1, <1>3, <2>2 DEF TInv, OrderInv
  <2> QED BY <2>4, <2>5, <2>6 DEF OrderInv
<1>5. PlacesInv'
  <2>1. \A s : Placed(s) => Placed(s)'
    BY <1>1, <1>3 DEF Placed, IsFirst, PlacedIn, NextOf
  <2>2. \A i : ItemAimed(items[i]) => ItemAimed(items[i])'
    BY <1>1 DEF ItemAimed, Aimed, AllNamed, Named
  <2> QED BY <1>1, <1>3, <2>1, <2>2 DEF TInv, PlacesInv
<1>6. BytesInv'
  <2>1. \A i, d : HasData(i, d)' <=> HasData(i, d)
    BY <1>1 DEF HasData
  <2>2. \A i \in 1..at' - 1 : Emitting =>
          (Emits(i)' /\ ~Faulty(i)' => \E d \in Data(items[i], symbol_table)' : HasData(i, d)')
    BY <1>1, <2>1, FaultsStay DEF TInv, BytesInv
  <2> QED BY <1>1, <2>2 DEF BytesInv, Emitting
<1> QED BY <1>2, <1>4, <1>5, <1>6 DEF TInv

-----------------------------------------------------------------------------
LEMMA LeastIs ==
  ASSUME NEW S, S \subseteq Int, NEW n \in S, \A m \in S : n <= m
  PROVE  Min(S) = n
<1>1. \A x \in S : (\A y \in S : x <= y) => x = n
  OBVIOUS
<1> QED BY <1>1 DEF Min

(* What the table has for a name is where the label stands, and it has all *)
(* that stand on a line.                                                   *)
LEMMA TableRight ==
  ASSUME TInv, Emitting, NEW s
  PROVE  /\ s \in DOMAIN symbol_table =>
              /\ \E n \in DOMAIN source : source[n].label = s
              /\ symbol_table[s] = PlaceOf(s) /\ symbol_table[s] \in Nat
              /\ symbol_table[s] <= MAX_IMAGE_BYTES
         /\ (\E n \in DOMAIN source : source[n].label = s) => s = "" \/ s \in DOMAIN symbol_table
<1>1. /\ Clean /\ phase # "expand" /\ pc \in Nat /\ pc <= MAX_IMAGE_BYTES /\ MAX_IMAGE_BYTES \in Nat
      /\ LaidLines = DOMAIN expanded /\ DOMAIN source \subseteq Int /\ DOMAIN items \subseteq Int
      /\ \A i \in DOMAIN items : ItemInv(items[i], pc)
  <2>1. Clean /\ phase # "expand" /\ LaidLines = DOMAIN expanded
    BY DEF Clean, Emitting, LaidLines
  <2>2. CountersInv /\ Laid(items, pc) /\ PlacesInv
    BY DEF TInv, LInv, IInv, ItemsInv
  <2>3. pc \in Nat /\ source \in Seq(Line) /\ pc <= MAX_IMAGE_BYTES
    BY <2>1, <2>2 DEF CountersInv, PlacesInv
  <2>4. DOMAIN source \subseteq Int
    BY <2>3
  <2>5. DOMAIN items \subseteq Int /\ \A i \in DOMAIN items : ItemInv(items[i], pc)
    BY <2>2 DEF Laid, IsSequence
  <2> QED BY <2>1, <2>3, <2>4, <2>5, AssemblerAssumption
<1>2. ASSUME s \in DOMAIN symbol_table
      PROVE  /\ \E n \in DOMAIN source : source[n].label = s
             /\ symbol_table[s] = PlaceOf(s) /\ symbol_table[s] \in Nat
             /\ symbol_table[s] <= MAX_IMAGE_BYTES
  <2>1. PICK k \in LaidLines :
          IsFirst(expanded[k].line, s) /\ PlacedIn(items, pc, expanded[k].line, symbol_table[s])
    BY <1>1, <1>2 DEF TInv, PlacesInv, Placed
  <2> DEFINE line == expanded[k].line
             lines == {n \in DOMAIN source : source[n].label = s}
             next == NextOf(items, line)
  <2>2. line \in lines /\ lines \subseteq Int /\ \A m \in lines : line <= m
    BY <1>1, <2>1 DEF IsFirst
  <2>3. Min(lines) = line
    <3> HIDE DEF lines, line
    <3> QED BY <2>2, LeastIs
  <2>4. PlaceOf(s) = IF next = {} THEN pc ELSE items[Min(next)].address
    BY <2>3 DEF PlaceOf, NextOf
  <2>5. next \subseteq DOMAIN items /\ next \subseteq Int
    BY <1>1 DEF NextOf
  <2> HIDE DEF line, next, lines
  <2>6. CASE next = {} /\ symbol_table[s] = pc
    BY <1>1, <2>2, <2>4, <2>6 DEF lines
  <2>7. CASE \E i \in next : (\A j \in next : i <= j) /\ symbol_table[s] = items[i].address
    <3>1. PICK i \in next : (\A j \in next : i <= j) /\ symbol_table[s] = items[i].address
      BY <2>7
    <3>2. Min(next) = i
      BY <2>5, <3>1, LeastIs
    <3>3. symbol_table[s] = PlaceOf(s)
      BY <2>4, <3>1, <3>2
    <3>4. ItemInv(items[i], pc)
      BY <1>1, <2>5
    <3>5. items[i].address \in Nat /\ items[i].size \in Nat /\ items[i].address + items[i].size <= pc
      BY <3>4 DEF ItemInv
    <3>6. items[i].address <= MAX_IMAGE_BYTES
      BY <1>1, <3>5
    <3> QED BY <2>2, <3>1, <3>3, <3>5, <3>6 DEF lines
  <2>8. PlacedIn(items, pc, line, symbol_table[s])
    BY <2>1 DEF line
  <2> QED BY <2>6, <2>7, <2>8 DEF PlacedIn, next
<1>3. ASSUME s # "", NEW n \in DOMAIN source, source[n].label = s
      PROVE  s \in DOMAIN symbol_table
  <2>1. LabelKept(n)
    BY <1>1 DEF TInv, OrderInv
  <2>2. PICK k \in DOMAIN expanded : expanded[k].label = s
    BY <1>3, <2>1 DEF LabelKept
  <2> QED BY <1>1, <1>3, <2>2 DEF TInv, PlacesInv
<1> QED BY <1>2, <1>3

(* The data of an item is in the image, word by word.                      *)
LEMMA WordsThere ==
  ASSUME TInv, Emitting, NEW i \in 1..at - 1, Aims(items[i].op), ~Faulty(i)
  PROVE  /\ items[i].address \in Nat /\ items[i].address <= MAX_IMAGE_BYTES
         /\ items[i].kind = "instruction" /\ AllNamed(items[i].operands)
         /\ items[i].op = "la" =>
              \E d \in encode_la(items[i].operands, items[i].address, symbol_table) :
                \A v, w : HasWords(d, v, w) =>
                            HasWord(items[i].address, v) /\ HasWord(items[i].address + 4, w)
         /\ items[i].op # "la" =>
              \E w \in Words(items[i].op, items[i].operands, items[i].address, symbol_table) :
                HasWord(items[i].address, w)
<1> DEFINE item == items[i]
           a == item.address
<1>1. /\ i \in DOMAIN items /\ ItemInv(item, pc) /\ pc \in Nat
      /\ pc <= MAX_IMAGE_BYTES /\ MAX_IMAGE_BYTES \in Nat /\ ItemAimed(item)
  <2>1. at \in Nat /\ Len(items) \in Nat /\ DOMAIN items = 1..Len(items) /\ at <= Len(items) + 1
    BY DEF TInv, LInv, IInv, CountersInv, ItemsInv, Laid, IsSequence, ErrorsInv
  <2>2. i \in DOMAIN items
    BY <2>1
  <2> QED BY <2>2, AssemblerAssumption
          DEF TInv, LInv, IInv, CountersInv, ItemsInv, Laid, PlacesInv, Clean
<1>2. item.kind = "instruction" /\ AllNamed(item.operands) /\ Emits(i)
  BY <1>1 DEF ItemAimed, Aimed, Emits
<1>3. a \in Nat /\ item.size \in Nat /\ a + item.size <= pc
  BY <1>1 DEF ItemInv
<1>4. a <= MAX_IMAGE_BYTES
  BY <1>1, <1>3
<1>5. PICK d \in Data(item, symbol_table) : HasData(i, d)
  BY <1>2 DEF TInv, BytesInv
<1>6. \A k \in DOMAIN d : image.bytes[a + k] = d[k]
  BY <1>5 DEF HasData
<1>7. DOMAIN d = 0..item.size - 1
  BY <1>1, <1>2, DataFills
<1> HIDE DEF item, a
<1>8. CASE item.op = "la"
  <2>1. d \in encode_la(item.operands, a, symbol_table)
    BY <1>2, <1>5, <1>8 DEF Data, a
  <2>2. DOMAIN d = 0..7
    BY <1>1, <1>2, <1>7, <1>8 DEF ItemInv
  <2>3. ASSUME NEW v, NEW w, HasWords(d, v, w)
        PROVE  HasWord(a, v) /\ HasWord(a + 4, w)
    <3>1. \A k \in 0..3 : k \in 0..7 /\ 4 + k \in 0..7 /\ (a + 4) + k = a + (4 + k)
      BY <1>3
    <3>2. \A k \in 0..3 : image.bytes[a + k] = Byte(v, k)
      BY <1>6, <2>2, <2>3, <3>1 DEF HasWords
    <3>3. \A k \in 0..3 : image.bytes[(a + 4) + k] = Byte(w, k)
      <4> TAKE k \in 0..3
      <4>1. image.bytes[a + (4 + k)] = d[4 + k]
        BY <1>6, <2>2, <3>1
      <4> QED BY <2>3, <3>1, <4>1 DEF HasWords
    <3> QED BY <3>2, <3>3 DEF HasWord
  <2> QED BY <1>2, <1>3, <1>4, <1>8, <2>1, <2>3 DEF item, a
<1>9. CASE item.op # "la"
  <2>1. PICK w \in Words(item.op, item.operands, a, symbol_table) : d = Little4(w)
    BY <1>2, <1>5, <1>9 DEF Data, a
  <2>2. \A k \in 0..3 : k \in DOMAIN d /\ d[k] = Byte(w, k)
    BY <2>1 DEF Little4
  <2>3. HasWord(a, w)
    BY <1>6, <2>2 DEF HasWord
  <2> QED BY <1>2, <1>3, <1>4, <1>9, <2>1, <2>3 DEF item, a
<1> QED BY <1>8, <1>9 DEF item

(* Decoded, a branch or a jump leads where its operand says from where it  *)
(* is, and la to what the table has.                                       *)
LEMMA RelativeLeads ==
  ASSUME TInv, Emitting, NEW i \in 1..at - 1, items[i].op \in Relative, ~Faulty(i)
  PROVE  /\ items[i].address \in Nat /\ LeadsTo(i) \in Int /\ Named(TargetOf(i))
         /\ LeadsTo(i) - items[i].address \in
              resolve_pc_relative(TargetOf(i), items[i].address, symbol_table)
<1> DEFINE item == items[i]
           a == item.address
           m == item.op
           o == item.operands
<1>1. m \in DOMAIN ENC /\ m # "la" /\ ENC[m].fmt \in {"B", "J"} /\ (ENC[m].fmt = "J" <=> m = "jal")
  BY RelativeRows DEF Relative
<1>2. /\ a \in Nat /\ AllNamed(o)
      /\ \E w \in Words(m, o, a, symbol_table) : HasWord(a, w)
  BY <1>1, WordsThere DEF Aims
<1>3. PICK w \in Words(m, o, a, symbol_table) : HasWord(a, w)
  BY <1>2
<1>4. Alike(WordAt(a), w)
  BY <1>2, <1>3, WordRead
<1>5. TargetOf(i) = o[Len(o)]
  BY <1>1 DEF TargetOf
<1>6. LeadsTo(i) = IF m = "jal" THEN a + unpack_j(WordAt(a)) ELSE a + unpack_b(WordAt(a))
  BY <1>1 DEF LeadsTo
<1> DEFINE there == LeadsTo(i)
           t == o[Len(o)]
<1> HIDE DEF item, a, m, o, there
<1>7. \E v \in Int : there = a + v /\ v \in resolve_pc_relative(t, a, symbol_table) /\ Len(o) \in Nat \ {0}
  <2>1. CASE m = "jal"
    <3>1. unpack_j(w) \in Int /\ unpack_j(w) \in resolve_pc_relative(t, a, symbol_table) /\ Len(o) = 2
      BY <1>1, <1>3, <2>1, JumpsAim
    <3>2. there = a + unpack_j(w)
      BY <1>4, <1>6, <2>1 DEF Alike, there
    <3> QED BY <3>1, <3>2
  <2>2. CASE m # "jal"
    <3>1. unpack_b(w) \in Int /\ unpack_b(w) \in resolve_pc_relative(t, a, symbol_table) /\ Len(o) = 3
      BY <1>1, <1>3, <2>2, BranchesAim
    <3>2. there = a + unpack_b(w)
      BY <1>4, <1>6, <2>2 DEF Alike, there
    <3> QED BY <3>1, <3>2
  <2> QED BY <2>1, <2>2
<1>8. PICK v \in Int : there = a + v /\ v \in resolve_pc_relative(t, a, symbol_table) /\ Len(o) \in Nat \ {0}
  BY <1>7
<1>9. there \in Int /\ there - a = v
  BY <1>2, <1>8
<1>10. Named(t)
  <2>1. Len(o) \in DOMAIN o
    BY <1>2, <1>8 DEF AllNamed, IsSequence
  <2> QED BY <1>2, <2>1 DEF AllNamed
<1> QED BY <1>2, <1>5, <1>8, <1>9, <1>10 DEF there, a, o, item

LEMMA LoadLeads ==
  ASSUME TInv, Emitting, NEW i \in 1..at - 1, items[i].op = "la", ~Faulty(i)
  PROVE  /\ TargetOf(i).text \in DOMAIN symbol_table
         /\ LeadsTo(i) = symbol_table[TargetOf(i).text]
<1> DEFINE a == items[i].address
           o == items[i].operands
           s == o[2].text
<1>1. /\ a \in Nat /\ a <= MAX_IMAGE_BYTES
      /\ \E d \in encode_la(o, a, symbol_table) :
           \A v, w : HasWords(d, v, w) => HasWord(a, v) /\ HasWord(a + 4, w)
  BY WordsThere DEF Aims
<1>2. PICK d \in encode_la(o, a, symbol_table) :
        \A v, w : HasWords(d, v, w) => HasWord(a, v) /\ HasWord(a + 4, w)
  BY <1>1
<1>3. s \in DOMAIN symbol_table
  BY <1>2 DEF encode_la
<1>4. symbol_table[s] \in Nat /\ symbol_table[s] <= MAX_IMAGE_BYTES
  BY <1>3, TableRight
<1>5. TargetOf(i) = o[2]
  BY DEF TargetOf
<1>6. LeadsTo(i) = a + SignExtend(fields(WordAt(a)).imm20, 20) * 4096
                     + SignExtend(fields(WordAt(a + 4)).imm12, 12)
  BY DEF LeadsTo
<1> DEFINE there == LeadsTo(i)
           n == symbol_table[s]
<1> HIDE DEF a, o, there
<1>7. n <= 2^30 /\ a <= 2^30
  BY <1>1, <1>4, AssemblerAssumption, ImageAssumption, Literals, SMT
<1>8. \E v, w : HasWords(d, v, w) /\ LoadUp(v, w, n - a)
  BY <1>1, <1>4, <1>7, LoadsAim
<1>9. PICK v, w : HasWords(d, v, w) /\ LoadUp(v, w, n - a)
  BY <1>8
<1>10. HasWord(a, v) /\ HasWord(a + 4, w) /\ a + 4 \in Nat
  BY <1>1, <1>2, <1>9
<1>11. Alike(WordAt(a), v) /\ Alike(WordAt(a + 4), w)
  BY <1>1, <1>10, WordRead
<1>12. there = a + Upper(v) * 4096 + Lower(w)
  <2>1. fields(WordAt(a)).imm20 = Slice(v, 12, 20) /\ fields(WordAt(a + 4)).imm12 = Slice(w, 20, 12)
    BY <1>11, Zenon DEF Alike
  <2>2. there = a + SignExtend(fields(WordAt(a)).imm20, 20) * 4096
                  + SignExtend(fields(WordAt(a + 4)).imm12, 12)
    BY <1>6 DEF there
  <2>3. /\ SignExtend(fields(WordAt(a)).imm20, 20) = Upper(v)
        /\ SignExtend(fields(WordAt(a + 4)).imm12, 12) = Lower(w)
    BY <2>1, Zenon DEF Upper, Lower
  <2> QED BY <2>2, <2>3
<1> HIDE DEF n
<1>13. there = n
  <2> DEFINE x == Upper(v)
             y == Lower(w)
  <2>1. n \in Nat /\ x \in Int /\ y \in Int /\ x * 4096 + y = n - a
    BY <1>4, <1>9 DEF LoadUp, n
  <2>2. a \in Nat /\ there = a + x * 4096 + y
    BY <1>1, <1>12
  <2> HIDE DEF x, y
  <2>3. a + x * 4096 + y = n
    BY <2>1, <2>2, SMT
  <2> QED BY <2>2, <2>3
<1> QED BY <1>3, <1>5, <1>13 DEF there, n

(* Whatever the program: decoded from the image, a branch, a jump or la    *)
(* leads to the statement that its label stands before, or as far as its   *)
(* number says.                                                            *)
THEOREM TargetsAreReached == Spec => []TargetsReached
<1>1. TInv /\ [Next]_vars => TInv'
  BY ExpandLineReaches, StartLayoutReaches, LayBlankReaches, LayBareColonReaches,
     LayOrgReaches, LayStatementReaches, EndLayoutReaches, EmitNothingReaches, EmitDataReaches,
     EmitErrorReaches, FinishReaches, StutterReaches DEF Next
<1>2. TInv => TargetsReached
  <2> SUFFICES ASSUME TInv, Emitting, NEW i \in 1..at - 1, items[i].op \in Relative \cup {"la"}, ~Faulty(i)
               PROVE  IF \E n \in DOMAIN source : source[n].label = TargetOf(i).text
                      THEN LeadsTo(i) = PlaceOf(TargetOf(i).text)
                      ELSE LeadsTo(i) - items[i].address \in parse_integer(TargetOf(i))
    BY DEF TargetsReached
  <2> DEFINE t == TargetOf(i)
             s == t.text
             a == items[i].address
             there == LeadsTo(i)
  <2>1. CASE items[i].op = "la"
    BY <2>1, LoadLeads, TableRight
  <2>2. CASE items[i].op \in Relative
    <3>1. a \in Nat /\ there \in Int /\ Named(t) /\ there - a \in resolve_pc_relative(t, a, symbol_table)
      BY <2>2, RelativeLeads
    <3>2. CASE s \in DOMAIN symbol_table
      <4>1. /\ \E n \in DOMAIN source : source[n].label = s
            /\ symbol_table[s] = PlaceOf(s) /\ symbol_table[s] \in Nat
        BY <3>2, TableRight
      <4>2. there - a = symbol_table[s] - a
        BY <3>1, <3>2 DEF resolve_pc_relative
      <4> HIDE DEF a, there, s
      <4>3. there = symbol_table[s]
        BY <3>1, <4>1, <4>2
      <4> QED BY <4>1, <4>3 DEF there, s
    <3>3. CASE s \notin DOMAIN symbol_table
      <4>1. there - a \in parse_integer(t)
        BY <3>1, <3>3 DEF resolve_pc_relative
      <4>2. t.num # {}
        BY <4>1 DEF parse_integer
      <4>3. s # ""
        BY <3>1, <4>2 DEF Named
      <4>4. ~\E n \in DOMAIN source : source[n].label = s
        BY <3>3, <4>3, TableRight
      <4> QED BY <4>1, <4>4
    <3> QED BY <3>2, <3>3
  <2> QED BY <2>1, <2>2
<1> QED BY InitReaches, <1>1, <1>2, PTL DEF Spec

==============================================================================
