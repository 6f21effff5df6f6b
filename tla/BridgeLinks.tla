---------------------------- MODULE BridgeLinks ----------------------------
(***************************************************************************)
(* What the bridge manager promises, as an MQTT broker sees it: at most    *)
(* one session per bridge, which is ended before the next one begins, goes *)
(* down and comes up on its own, and carries the subscriptions made since  *)
(* it last came up.                                                        *)
(*                                                                         *)
(* A session is "fresh" when it came up before Connect had finished its    *)
(* bookkeeping, which promises no subscription, and "resumed" otherwise.   *)
(***************************************************************************)
CONSTANTS Keys, Topics

VARIABLES
    link,   \* Keys -> the stage of its session
    subs    \* Keys -> topics the broker delivers to it

vars == <<link, subs>>

LinksTypeOK ==
    /\ link \in [Keys -> {"none", "fresh", "retrying", "resumed"}]
    /\ subs \in [Keys -> SUBSET Topics]

Init ==
    /\ link = [k \in Keys |-> "none"]
    /\ subs = [k \in Keys |-> {}]

Become(k, stage) ==
    /\ link' = [link EXCEPT ![k] = stage]
    /\ subs' = [subs EXCEPT ![k] = {}]

\* Connect, which leaves no older session to take over from.
Establish(k) == link[k] = "none" /\ Become(k, "fresh")

\* Disconnect, or the Connect that comes next.
End(k) == link[k] # "none" /\ Become(k, "none")

GoDown(k) == link[k] \in {"fresh", "resumed"} /\ Become(k, "retrying")

ComeUp(k) ==
    /\ link[k] = "retrying"
    /\ \E stage \in {"fresh", "resumed"} : Become(k, stage)

Subscribe(k, t) ==
    /\ link[k] \in {"fresh", "resumed"}
    /\ t \notin subs[k]
    /\ subs' = [subs EXCEPT ![k] = @ \cup {t}]
    /\ UNCHANGED link

\* The process ends; so do its sessions.
Stop == link' = [k \in Keys |-> "none"] /\ subs' = [k \in Keys |-> {}]

Next ==
    \/ \E k \in Keys : Establish(k) \/ End(k) \/ GoDown(k) \/ ComeUp(k)
    \/ \E k \in Keys, t \in Topics : Subscribe(k, t)
    \/ Stop

Safety == Init /\ [][Next]_vars

\* A resumed session gets every topic, unless it goes down or is ended first.
Spec ==
    /\ Safety
    /\ \A k \in Keys, t \in Topics : WF_vars(link[k] = "resumed" /\ Subscribe(k, t))

=============================================================================
