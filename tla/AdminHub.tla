------------------------------ MODULE AdminHub ------------------------------
(***************************************************************************)
(* The hub that tells open admin pages of changes and of pushed actions    *)
(* (internal/aggregator/adminhub.go).  Its mutex guards the map of the     *)
(* subscribers in Subscribe and in its cancel, each one step; a broadcast  *)
(* ranges over the same map without it, so it is a step per subscriber.    *)
(***************************************************************************)
EXTENDS Naturals

CONSTANTS
    Pages,      \* admin pages, each with its event stream
    Handlers    \* requests that broadcast: enrolments, reports, pushes, ...

VARIABLES
    up,     \* the aggregator runs
    subs,   \* AdminHub.subs, by page
    chan,   \* chan[p]: the event in the one slot of p's channel, or "empty"
    walk,   \* walk[h]: the subscribers h's broadcast has still to visit
    event   \* event[h]: what h broadcasts

vars == <<up, subs, chan, walk, event>>

Events == {"registry", "action"}

Init ==
    /\ up = TRUE
    /\ subs = {}
    /\ chan = [p \in Pages |-> "empty"]
    /\ walk = [h \in Handlers |-> {}]
    /\ event = [h \in Handlers |-> "registry"]

\* A map written while it is ranged over: the runtime ends the process when it
\* notices; when it does not, a range comes across the page or it does not.
Fatal ==
    /\ \E h \in Handlers : walk[h] # {}
    /\ up' = FALSE
    /\ subs' = {}
    /\ walk' = [h \in Handlers |-> {}]

Unnoticed(p) ==
    /\ \E found \in SUBSET {h \in Handlers : walk[h] # {}} :
         walk' = [h \in Handlers |-> IF h \in found THEN walk[h] \cup {p}
                                                    ELSE walk[h] \ {p}]
    /\ UNCHANGED up

Subscribe(p) ==
    /\ up /\ p \notin subs
    /\ \/ subs' = subs \cup {p} /\ Unnoticed(p)
       \/ Fatal
    /\ chan' = [chan EXCEPT ![p] = "empty"]
    /\ UNCHANGED event

\* The page is closed.
Cancel(p) ==
    /\ up /\ p \in subs
    /\ \/ subs' = subs \ {p} /\ Unnoticed(p)
       \/ Fatal
    /\ UNCHANGED <<chan, event>>

\* Notify and NotifyAction.
Notify(h, ev) ==
    /\ up /\ walk[h] = {}
    /\ walk' = [walk EXCEPT ![h] = subs]
    /\ event' = [event EXCEPT ![h] = ev]
    /\ UNCHANGED <<up, subs, chan>>

\* A full slot drops the event.
Send(h, p) ==
    /\ p \in walk[h]
    /\ chan' = [chan EXCEPT ![p] = IF @ = "empty" THEN event[h] ELSE @]
    /\ walk' = [walk EXCEPT ![h] = @ \ {p}]
    /\ UNCHANGED <<up, subs, event>>

\* handleAdminEvents writes the event to the page.
Write(p) ==
    /\ up /\ p \in subs /\ chan[p] # "empty"
    /\ chan' = [chan EXCEPT ![p] = "empty"]
    /\ UNCHANGED <<up, subs, walk, event>>

Restart == ~up /\ up' = TRUE /\ UNCHANGED <<subs, chan, walk, event>>

Next ==
    \/ \E p \in Pages : Subscribe(p) \/ Cancel(p) \/ Write(p)
    \/ \E h \in Handlers, ev \in Events : Notify(h, ev)
    \/ \E h \in Handlers, p \in Pages : Send(h, p)
    \/ Restart

Spec == Init /\ [][Next]_vars

-----------------------------------------------------------------------------
(* What the comments say and the code does not do                          *)

\* adminhub.go, broadcast: "broadcast must be called with h.mu held".  A page
\* comes or goes only while no broadcast ranges over the subscribers.
BroadcastIsLocked ==
    [][subs' # subs => \A h \in Handlers : walk[h] = {}]_vars
=============================================================================
