------------------------------- MODULE MCJson -------------------------------
(* Model checking of Json: two keys, every sign, one number; every code of the
   first plane but the surrogates, and the ends of the others. *)
EXTENDS Json

TwoStrings == {"k", "h"}
AllTokens == Signs \cup White \cup TwoStrings \cup {"1", "true", "false", "null"}
AllCodes == ((0..65535) \ (High \cup Low)) \cup {65536, 65537, 66559, 66560, 128512, 1113088, 1114111}
ShortStrings == UNION {[1..n -> {0, Quote, Backslash, 97, 110, LetterU}] : n \in 0..4}
=============================================================================
