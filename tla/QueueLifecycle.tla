--------------------------- MODULE QueueLifecycle ---------------------------
(***************************************************************************)
(* What the queue table promises the rest of the program, with no tasks,   *)
(* snapshots or clients: the life of one download from its grab to its     *)
(* end.  DownloadQueue implements it.                                      *)
(***************************************************************************)
CONSTANTS Rows

VARIABLES life,   \* where each download is in its life
          verdict \* how it ended, as the blocklist and the history tell it

Lives    == {"unborn", "active", "ready", "importing", "failed", "gone"}
Verdicts == {"open", "imported", "blocklisted"}

TypeOK == life \in [Rows -> Lives] /\ verdict \in [Rows -> Verdicts]

Init == /\ life = [r \in Rows |-> "unborn"]
        /\ verdict = [r \in Rows |-> "open"]

Move(r, from, to) == /\ life[r] = from
                     /\ life' = [life EXCEPT ![r] = to]
                     /\ UNCHANGED verdict

Enqueue(r) == Move(r, "unborn", "active")

(* A download that is ready for import never goes back to the client. *)
Finish(r)  == Move(r, "active", "ready")
Import(r)  == Move(r, "ready", "importing")
Retry(r)   == Move(r, "importing", "ready") /\ verdict[r] = "open"
Fail(r)    == /\ Move(r, "active", "failed") \/ Move(r, "importing", "failed")
              /\ verdict[r] = "open"
Lose(r)    == Move(r, "active", "gone") /\ verdict[r] = "open"

(* Only an importing row, or one its user removed meanwhile, is imported. *)
Accept(r) == /\ life[r] \in {"importing", "gone"} /\ verdict[r] = "open"
             /\ verdict' = [verdict EXCEPT ![r] = "imported"]
             /\ UNCHANGED life

(* Only what failed or was lost is blocklisted, once. *)
Reject(r) == /\ life[r] \in {"failed", "gone"} /\ verdict[r] = "open"
             /\ verdict' = [verdict EXCEPT ![r] = "blocklisted"]
             /\ UNCHANGED life

Leave(r)  == Move(r, "importing", "gone")

(* Failed rows may be purged together. *)
Purge == /\ \E P \in SUBSET {r \in Rows : life[r] = "failed"} :
              life' = [r \in Rows |-> IF r \in P THEN "gone" ELSE life[r]]
         /\ UNCHANGED verdict

Cancel(r) == /\ life[r] \notin {"unborn", "gone"}
             /\ life' = [life EXCEPT ![r] = "gone"]
             /\ UNCHANGED verdict

Next ==
    \/ Purge
    \/ \E r \in Rows :
          \/ Enqueue(r) \/ Finish(r) \/ Import(r) \/ Retry(r) \/ Fail(r)
          \/ Lose(r) \/ Accept(r) \/ Reject(r) \/ Leave(r) \/ Cancel(r)

Spec == Init /\ [][Next]_<<life, verdict>>
=============================================================================
