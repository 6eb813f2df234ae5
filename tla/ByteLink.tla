------------------------------ MODULE ByteLink ------------------------------
(***************************************************************************)
(* What the JTAG UART promises the firmware and the host: two byte        *)
(* streams, one in each direction, in order, nothing lost, nothing twice. *)
(* A byte is its place in its stream, 1 being the first.  The driver's    *)
(* read() and write() may move fewer bytes than they were asked to.       *)
(***************************************************************************)
EXTENDS Naturals, Sequences

CONSTANT Chunk      \* the most bytes one copy of the driver moves

VARIABLES up,       \* bytes on their way from the host to the program
          down,     \* bytes on their way from the program to the host
          sent,     \* how many bytes the host has sent
          written,  \* how many bytes the driver has accepted from the program
          handed    \* the last byte the program was handed

linkVars == <<up, down, sent, written, handed>>

LinkInit == up = << >> /\ down = << >> /\ sent = 0 /\ written = 0 /\ handed = 0

\* The host sends one byte.
HostSends == /\ up' = Append(up, sent + 1)
             /\ sent' = sent + 1
             /\ UNCHANGED <<down, written, handed>>

\* The program is handed the oldest n bytes.
ProgramReads == \E n \in 1..Len(up) :
                   /\ handed' = up[n]
                   /\ up' = SubSeq(up, n + 1, Len(up))
                   /\ UNCHANGED <<down, sent, written>>

\* The program hands over its next n bytes.
ProgramWrites == \E n \in 1..Chunk :
                    /\ down' = down \o [i \in 1..n |-> written + i]
                    /\ written' = written + n
                    /\ UNCHANGED <<up, sent, handed>>

\* The host takes the oldest byte.
HostTakes == /\ down # << >>
             /\ down' = Tail(down)
             /\ UNCHANGED <<up, sent, written, handed>>

LinkNext == HostSends \/ ProgramReads \/ ProgramWrites \/ HostTakes

LinkSpec == LinkInit /\ [][LinkNext]_linkVars
=============================================================================
