--------------------------- MODULE EventRecorder ---------------------------
(***************************************************************************)
(* client-go's EventRecorder, which main.go hands to the reconcilers.      *)
(* Recorder.Event returns before anything is sent: the Event waits in the  *)
(* memory of the process, is sent by another goroutine, and can be dropped *)
(* on the way (a full channel, the filter against spam, an API server that *)
(* refuses it).  What has not been sent when the process ends is gone.     *)
(***************************************************************************)
VARIABLES
    told,    \* history: the Events that any process gave to its recorder
    unsent,  \* the Events that wait in the memory of the process
    events   \* the Events that the API server has

eventVars == <<told, unsent, events>>

\* An Event that the API server has already only gets a higher count there.
Record(es) ==
    /\ told' = told \cup es
    /\ unsent' = unsent \cup (es \ events)
    /\ UNCHANGED events

SendEvent ==
    \E e \in unsent :
        /\ unsent' = unsent \ {e}
        /\ events' = events \cup {e}
        /\ UNCHANGED told

DropEvent ==
    \E e \in unsent :
        /\ unsent' = unsent \ {e}
        /\ UNCHANGED <<told, events>>

DropUnsent ==
    /\ unsent' = {}
    /\ UNCHANGED <<told, events>>

RecorderInit ==
    /\ told = {}
    /\ unsent = {}
    /\ events = {}

=============================================================================
