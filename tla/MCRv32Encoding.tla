--------------------------- MODULE MCRv32Encoding ---------------------------
(***************************************************************************)
(* Every mnemonic with operands at and around every bit of their fields.   *)
(***************************************************************************)
EXTENDS Rv32Codec

(* Around every power of two, either sign, up to beyond width bits.        *)
Around(width) ==
  UNION {{2^k - 1, 2^k, -(2^k), -(2^k) - 1, 2^k - 2} : k \in 0..width + 1}

MCImms ==
  [m \in DOMAIN ENC |->
   LET e == ENC[m]
   IN CASE e.fmt = "I" /\ e.f7 # Unset -> -1..33
       [] e.fmt \in {"I", "S"} -> Around(12) \cup {1365, -1366}
       [] e.fmt = "B" -> Around(13) \cup {2730, -2732}
       [] e.fmt = "U" -> Around(20) \cup {349525}
       [] e.fmt = "J" -> Around(21) \cup {699050, -699052}
       [] e.fmt = "Z" -> Around(12)
       [] e.fmt = "FENCE" -> -1..16
       [] OTHER -> {0}]

=============================================================================
