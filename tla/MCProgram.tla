------------------------------ MODULE MCProgram ------------------------------
(***************************************************************************)
(* Values for the constants of Program.                                    *)
(***************************************************************************)
EXTENDS Program

CONSTANTS k1, k2, c1

MCFirstVersion == <<0, 3, 10, 4>>
MCChosen == {<<0, 4, 0>>}

\* The library of the first version says its version, or that of the second.
MCPublished == {[t \in Tag |-> t], [t \in Tag |-> 2]}

\* A synchronous converter and an asynchronous one, which is given the name of a
\* file or bytes.  Outputs with different extensions have different names anyway.
MCErrands ==
  {[c \in Converter |-> IF c = k1 THEN [data |-> "url", todo |-> x]
                                  ELSE [data |-> "name", todo |-> y]] :
     <<x, y>> \in {ops \in Operations(k1) \X Operations(k2) : ops[1][1] = ops[2][1]}}
  \union {[c \in Converter |-> IF c = k1 THEN [data |-> "name", todo |-> to_mp3]
                                         ELSE [data |-> "bytes", todo |-> gif_to_mp4]]}

\* The main thread connects a client, or a factory runs all; a factory only.
MCOnMain == {{}, {c1}}
MCFactory == {{}}
=============================================================================
