------------------------------ MODULE AppSync ------------------------------
(***************************************************************************)
(* Whether Hydra serves what an application's row says, for any overlap of *)
(* requests and any faults.  Client and row are written by separate calls, *)
(* of handlers (UpdateDraft, RotateSecret, Revoke and Delete in            *)
(* internal/apps/service.go) and of the worker                             *)
(* (internal/apps/provisioner.go), and nothing serializes them.            *)
(*                                                                         *)
(* AppLifecycle is left as it is; history variables record which requests  *)
(* ran undisturbed, and which applications such a request has settled      *)
(* whatever had happened to them before.                                   *)
(***************************************************************************)
EXTENDS AppLifecycle

VARIABLES
    alone,    \* history: the requests at work that nobody has disturbed so far
    fresh,    \* history: the worker is about to save a client it created in this
              \* attempt, and no request has come to its application since
    settled   \* history: the applications whose last writer ran undisturbed

syncVars == <<vars, alone, fresh, settled>>

\* Requests that may still touch the row or the client: an audit event does not.
Busy(r) == \E i \in DOMAIN req[r].todo : req[r].todo[i].call # "audit"
BusyOn(a) == {r \in Requests : req[r].id = a /\ Busy(r)}

\* The worker has read the row of a and is going to write it.
Holding(a) == prov.id = a /\ prov.pc \in {"create", "save"}

Undisturbed(r) == Busy(r) /\ BusyOn(req[r].id) = {r} /\ ~Holding(req[r].id)

-----------------------------------------------------------------------------
(* What a step means for the history. *)

\* The request saves an approved row, the last of its writes, after nobody came
\* between its read of the row and this answer.
Settles(r) ==
    /\ r \in alone
    /\ NextCall(r, "save") /\ req[r].copy.status = "approved"
    /\ req'[r] # req[r] /\ faults' = faults

\* The worker has saved the client it created.
WorkerSettles(a) == fresh /\ prov.id = a /\ prov'.pc = "complete"

\* Two requests work on the application, or a fault hits one that does.
Disturbs(a) ==
    \/ \E r, q \in BusyOn(a)' : r # q
    \/ faults' # faults /\ \E r \in BusyOn(a) : req'[r] # req[r]

Record ==
    /\ alone' = {r \in Requests : (r \in alone \/ ~Busy(r)) /\ Undisturbed(r)'}
    /\ fresh' = /\ fresh \/ prov.pc = "create"
                /\ prov'.pc = "save" /\ BusyOn(prov.id)' = {}
    /\ settled' = {a \in Apps :
                      \/ \E r \in Requests : req[r].id = a /\ Settles(r)
                      \/ WorkerSettles(a)
                      \/ a \in settled /\ ~Disturbs(a)}

SyncInit == Init /\ alone = {} /\ fresh = FALSE /\ settled = {}

SyncNext == Next /\ Record

SyncSpec == SyncInit /\ [][SyncNext]_syncVars

-----------------------------------------------------------------------------
(* Properties *)

Serves(c, row) == c.live /\ c.secret = row.sealed.secret /\ c.profile = row.profile

\* An edit, a rotation or a provisioning that ran undisturbed puts Hydra and the
\* row in agreement, whatever races and failures came before it: the client is
\* served with the secret the owner is shown and the profile the owner entered.
\* This lasts, and the row stays approved until it is revoked or deleted, unless
\* two requests overlap on the application or a fault hits one; the client of a
\* revoked row, or of one that Delete is about to remove, is no longer served.
SettledInSync ==
    \A a \in settled :
        LET row == apps[a]
            c == hydra[row.client]
        IN /\ row.status \in {"approved", "revoked", "deleted"}
           /\ row.status = "approved" /\ BusyOn(a) = {} => Serves(c, row)
           /\ row.status = "revoked" => ~c.live
           /\ \A r \in BusyOn(a) : NextCall(r, "delete") => ~c.live

\* Hydra accepts a replaced secret again (RotateSecret undone by the PUT of an
\* edit) only in an application on which requests have overlapped or a call has
\* failed since an undisturbed request settled it.
SettledSecretStays ==
    [][\A a \in settled :
          apps[a].client # 0 =>
              hydra'[apps[a].client].secret >= hydra[apps[a].client].secret]_syncVars
=============================================================================
