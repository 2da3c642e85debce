------------------------------ MODULE ThreadLog ------------------------------
(***************************************************************************)
(* What the Slack ingestion promises about one thread, whatever its        *)
(* handlers, Slack's deliveries and crashes do: the thread is a log of     *)
(* contents that only grows, one entry for each material change; an        *)
(* analysis is requested at most once for a version, with what is visible  *)
(* of an entry of the log that is not older; the thread row points to a    *)
(* version that has a request; an event is acknowledged only after its     *)
(* content is in the log, and for good.                                    *)
(* SlackIngest implements it (property ImplementsThreadLog).               *)
(***************************************************************************)
EXTENDS Integers, Sequences

CONSTANTS Messages,  \* the messages of the thread
          Values,    \* contents a message may have
          Hidden     \* the ones that are not shown: no message, or a deleted one

VARIABLES log,          \* log[v + 1]: the content of every message at version v
          requests,     \* the requests: the version and the inputs they carry
          analysed,     \* the version the thread row says was analysed, 0 for none
          acknowledged  \* the events, as <<message, content>>

vars == <<log, requests, analysed, acknowledged>>

Shown(content) == {<<m, content[m]>> : m \in {n \in Messages : content[n] \notin Hidden}}

Init == /\ \E content \in [Messages -> Hidden] : log = <<content>>
        /\ requests = {}
        /\ analysed = 0
        /\ acknowledged = {}

\* Messages are stored, and something is different.
Change ==
    /\ \E content \in [Messages -> Values] \ {log[Len(log)]} : log' = Append(log, content)
    /\ UNCHANGED <<requests, analysed, acknowledged>>

\* Version v is submitted, while later versions may have been stored.
Submit(v) ==
    /\ \A r \in requests : r.version # v
    /\ \E w \in v+1 .. Len(log) :
          /\ Shown(log[w]) # {}
          /\ requests' = requests \union {[version |-> v, inputs |-> Shown(log[w])]}
    /\ UNCHANGED <<log, analysed, acknowledged>>

Link == /\ \E r \in requests : analysed' = r.version
        /\ UNCHANGED <<log, requests, acknowledged>>

Acknowledge(e) ==
    /\ \E w \in DOMAIN log : log[w][e[1]] = e[2]
    /\ acknowledged' = acknowledged \union {e}
    /\ UNCHANGED <<log, requests, analysed>>

Next == \/ Change
        \/ \E v \in 0 .. Len(log) - 1 : Submit(v)
        \/ Link
        \/ \E e \in Messages \X Values : Acknowledge(e)

Spec == Init /\ [][Next]_vars
=============================================================================
