------------------------------ MODULE MCStreams ------------------------------
(***************************************************************************)
(* The map of incoming streams and the two halves of a stream, checked     *)
(* side by side: a behaviour chooses one of them and only that part moves. *)
(***************************************************************************)
EXTENDS IncomingStreams, SendStream

CONSTANTS MaxByteCount, MaxGaps, MinBuffer, Size, MaxFrames, ReadSizes

VARIABLES focus,
    sorter, finalOffset, current, currentIsLast, currentDone, flags, readChan, reader, want, got,
    frames, received, delivered, released, releases

receiveVars == <<sorter, finalOffset, current, currentIsLast, currentDone, flags, readChan, reader, want, got,
    frames, received, delivered, released, releases>>

Receive == INSTANCE ReceiveStream

StreamsInit ==
    /\ focus \in {"incoming", "send", "receive"}
    /\ Init /\ SendInit /\ Receive!Init

StreamsNext ==
    \/ focus = "incoming" /\ Next /\ UNCHANGED <<focus, sendVars, receiveVars>>
    \/ focus = "send" /\ SendNext /\ UNCHANGED <<focus, vars, receiveVars>>
    \/ focus = "receive" /\ Receive!Next /\ UNCHANGED <<focus, vars, sendVars>>

StreamsVars == <<focus, vars, sendVars, receiveVars>>

\* The fairness of IncomingStreams, for the behaviours in which it moves.
StreamsSpec ==
    /\ StreamsInit /\ [][StreamsNext]_StreamsVars
    /\ \A a \in Acceptors : WF_vars(focus = "incoming" /\ AcceptorStep(a))
    /\ WF_vars(focus = "incoming" /\ CloseNewStreamChan)

\* AcceptStream returns when a stream is there or the connection closed (IncomingStreams).
AcceptsEnd == AcceptedWhenAvailable /\ CloseReleasesAcceptors

\* The sorter holds exactly the received bytes not read, every buffer is put back once and
\* not while in use, Read returns the bytes in order and is woken, and the stream is completed
\* exactly when its final size is known and the application knows the end (ReceiveStream).
ReceiveExact ==
    /\ Receive!SorterExact /\ Receive!BufferOwnership /\ Receive!ReadsInOrder
    /\ Receive!ReaderWoken /\ Receive!CompletedExactly
=============================================================================
