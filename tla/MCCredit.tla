------------------------------- MODULE MCCredit -------------------------------
(***************************************************************************)
(* What a peer may use: numbers of streams (StreamLimits) and bytes        *)
(* (FlowControl, once with streams whose reader gives up and once without),*)
(* checked side by side: a behaviour chooses one of them and only that     *)
(* part moves.                                                             *)
(***************************************************************************)
EXTENDS StreamLimits

CONSTANTS Streams, Cancels, StreamWindow, MaxStreamWindow, ConnWindow, MaxConnWindow, MaxData

VARIABLES focus,
    sent, sendWindow, finished, completed, connSent, connSendWindow,
    maxStreamData, maxData, stopSending, reset, stopQueued, stopUnacked,
    read, highest, window, size, final, queuedMaxStreamData, cancelledLocally, cancelledRemotely,
    connRead, connHighest, connWindow, connSize, app, reading, wake, error

flowVars == <<sent, sendWindow, finished, completed, connSent, connSendWindow,
    maxStreamData, maxData, stopSending, reset, stopQueued, stopUnacked,
    read, highest, window, size, final, queuedMaxStreamData, cancelledLocally, cancelledRemotely,
    connRead, connHighest, connWindow, connSize, app, reading, wake, error>>

Flow == INSTANCE FlowControl WITH Cancellable <- Cancels, MaxConnWindow <- ConnWindow
Reading == INSTANCE FlowControl WITH Cancellable <- {}, MaxStreamWindow <- StreamWindow

CreditInit ==
    /\ focus \in {"limits", "flow", "reading"}
    /\ LimitsInit /\ Flow!Init

CreditNext ==
    \/ focus = "limits" /\ LimitsNext /\ UNCHANGED <<focus, flowVars>>
    \/ focus = "flow" /\ Flow!Next /\ UNCHANGED <<focus, limitVars>>
    \/ focus = "reading" /\ Reading!Next /\ UNCHANGED <<focus, limitVars>>

\* Fairness of StreamLimits: waiters run, frames of lost packets are sent again until they
\* arrive, and the acceptor's application keeps accepting and finishing streams.
CreditSpec ==
    /\ CreditInit /\ [][CreditNext]_<<focus, limitVars, flowVars>>
    /\ \A c \in Callers : WF_limitVars(focus = "limits" /\ WaiterStep(c) /\ UNCHANGED <<acceptorVars, maxStreamsFrames>>)
    /\ \A num \in 0..MaxLimit : WF_limitVars(focus = "limits" /\ num \in maxStreamsFrames /\ ReceiveMaxStreams(num))
    /\ \A num \in 1..MaxLimit : WF_limitVars(focus = "limits" /\ num < nextStream /\ ReceiveStream(num))
    /\ WF_limitVars(focus = "limits" /\ FinishStream)

\* Every caller that waits gets its stream, or is released by the close (StreamLimits).
WaitersServed == EveryWaiterServed /\ CloseReleasesWaiters

\* Every byte is counted once for the connection, no frame is answered with an error and
\* the unread bytes stay below the configured maxima (FlowControl).
CreditConserved ==
    /\ Flow!CreditConserved /\ Flow!NoFlowControlError
    /\ IF focus = "flow" THEN Flow!TypeOK /\ Flow!UnreadBounded ELSE Reading!TypeOK /\ Reading!UnreadBounded

\* The sender is not blocked for ever, and no connection update stays due (FlowControl).
FlowSettles == focus = "reading" => Reading!FlowSettles
=============================================================================
