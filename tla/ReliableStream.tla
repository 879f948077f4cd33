--------------------------- MODULE ReliableStream ---------------------------
(***************************************************************************)
(* What a connection of type SOCK_STREAM promises its two applications:    *)
(* the bytes read at one end are a prefix of the bytes written at the      *)
(* other, in order, none repeated and none left out.                       *)
(***************************************************************************)
EXTENDS Naturals, Sequences

VARIABLES input,    \* the bytes accepted from the sending application
          output    \* the bytes handed to the receiving application

SInit == input = << >> /\ output = << >>

Extends(long, short) == /\ Len(long) >= Len(short)
                        /\ SubSeq(long, 1, Len(short)) = short

Write == /\ Len(input') > Len(input) /\ Extends(input', input)
         /\ output' = output

Read == /\ Len(output') > Len(output) /\ Extends(output', output)
        /\ Extends(input, output')
        /\ input' = input

SNext == Write \/ Read

SSpec == SInit /\ [][SNext]_<<input, output>>
=============================================================================
