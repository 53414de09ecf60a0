-------------------------- MODULE TranscoderService --------------------------
(***************************************************************************)
(* What the transcode daemons promise the SFU: one transcoder per user,    *)
(* which runs only after it was asked for, may fail, and does not outlive  *)
(* the request to stop it for good.  The promise to a user can lapse.      *)
(***************************************************************************)
CONSTANT Users

VARIABLES promised,    \* users to whom the promise is kept
          wanted,      \* those of them whose transcoder was asked for
          serving      \* those of them for whom a transcoder runs

serviceVars == <<promised, wanted, serving>>

ServiceInit == promised = Users /\ wanted = {} /\ serving = {}

\* Nothing of an earlier request is left over.
Request(u) ==
    /\ u \in promised \ (wanted \cup serving)
    /\ wanted' = wanted \cup {u}
    /\ UNCHANGED <<promised, serving>>

Begin(u) ==
    /\ u \in wanted \ serving
    /\ serving' = serving \cup {u}
    /\ UNCHANGED <<promised, wanted>>

Cancel(u) ==
    /\ u \in wanted
    /\ wanted' = wanted \ {u}
    /\ UNCHANGED <<promised, serving>>

\* A transcoder that was stopped, or failed.
End(u) ==
    /\ u \in serving
    /\ serving' = serving \ {u}
    /\ UNCHANGED <<promised, wanted>>

\* For good, and to the others the promise stands as it did.
Lapse(users) ==
    /\ promised' = promised \ users
    /\ wanted' = wanted \ users
    /\ serving' = serving \ users

ServiceNext ==
    \/ \E u \in Users : Request(u) \/ Begin(u) \/ Cancel(u) \/ End(u)
    \/ \E users \in SUBSET promised : Lapse(users)

\* What the service may do, and that what is cancelled ends.
ServiceSafety == ServiceInit /\ [][ServiceNext]_serviceVars

ServiceSpec ==
    /\ ServiceSafety
    /\ \A u \in Users : WF_serviceVars(u \notin wanted /\ End(u))
=============================================================================
