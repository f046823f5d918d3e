------------------------------ MODULE Messages ------------------------------
(***************************************************************************)
(* Texts, messages and frames: how strings are joined and split            *)
(* (src/common/string.hpp), how numbers are printed and parsed, how a      *)
(* message becomes the frames a socket sends and back (src/comms/          *)
(* socket.cpp), and what ZeroMQ's ROUTER sockets add to and take off them. *)
(*                                                                         *)
(* A text is the sequence of its characters, with the digits of a number   *)
(* taken as one character.                                                 *)
(***************************************************************************)
EXTENDS Integers, SequencesExt, TLC

CONSTANTS Resolution,  \* doubles are multiples of 10^-6 / Resolution, counted by integers
          Numbers      \* bound: the numbers that are printed

\* Different numbers print differently, and none as a delimiter.
ASSUME MessagesAssumption ==
    /\ Resolution \in Nat \ {0} /\ Numbers \subseteq Int
    /\ \A m, n \in Numbers : ToString(m) = ToString(n) => m = n
    /\ \A n \in Numbers : ToString(n) # ":"

-----------------------------------------------------------------------------
(* Texts *)

Text(n) == <<ToString(n)>>
Number(text) == CHOOSE n \in Numbers : Text(n) = text

\* std::to_string of a double prints six decimals, rounded; stod reads them.
SixDecimals(x) == (x + Resolution \div 2) \div Resolution
PrintedDouble(x) == Text(SixDecimals(x))
ParsedDouble(text) == Number(text) * Resolution

joinStr(texts) ==
    LET result[i \in 0..Len(texts)] ==
            IF i = 0 THEN <<>> ELSE result[i - 1] \o texts[i] \o <<":">>
    IN  Front(result[Len(texts)])

\* A delimiter ends a segment; what follows the last one counts unless it is empty.
splitStr(text) ==
    LET loop[i \in 0..Len(text)] ==
            IF i = 0 THEN [out |-> <<>>, segment |-> <<>>]
            ELSE LET s == loop[i - 1]
                 IN  IF text[i] = ":"
                     THEN [out |-> Append(s.out, s.segment), segment |-> <<>>]
                     ELSE [s EXCEPT !.segment = Append(@, text[i])]
        end == loop[Len(text)]
    IN  IF end.segment = <<>> THEN end.out ELSE Append(end.out, end.segment)

-----------------------------------------------------------------------------
(* Messages and frames *)

\* The address is a stack: its last element is the next hop's.
Message(address, subject, data) == [address |-> address, subject |-> subject, data |-> data]

Empty == <<>>

\* Socket::send
Frames(m) == Reverse(m.address) \o <<Empty, <<m.subject>> >> \o m.data

\* Mutant of Received: the address keeps the order in which its frames came.
ReceivedUnreversed(frames) ==
    LET n == SelectInSeq(frames, LAMBDA f : f = Empty)
    IN  Message(SubSeq(frames, 1, n - 1), frames[n + 1][1],
                SubSeq(frames, n + 2, Len(frames)))

\* Socket::receive: frames up to the first empty one are the address, then the
\* subject, then the data.
Received(frames) ==
    LET n == SelectInSeq(frames, LAMBDA f : f = Empty)
    IN  Message(Reverse(SubSeq(frames, 1, n - 1)), frames[n + 1][1],
                SubSeq(frames, n + 2, Len(frames)))

\* A ROUTER puts the sender's identity in front of what it receives, and sends what
\* follows the first frame to the peer that frame names.
FromPeer(identity, frames) == <<identity>> \o frames
PeerOf(frames) == Head(frames)
ToPeer(frames) == Tail(frames)
=============================================================================
