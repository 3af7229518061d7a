------------------------------ MODULE FileVault ------------------------------
(***************************************************************************)
(* The versions of one vault file: its edit lock, its chain of rows, and   *)
(* the requests that act on them.  A request reads the row it was given,   *)
(* decides, and writes in a later transaction; what must still hold when it*)
(* writes rides in the WHERE of its update.  The bytes of a new version are*)
(* stored between the two, so a request that dies there leaves no row.     *)
(***************************************************************************)
EXTENDS Naturals, Sequences, FiniteSets

CONSTANTS
  Users, Admins, Nobody,
  Requests,     \* slots for requests in flight
  MaxRequests,  \* bound: requests
  MaxExpiries   \* bound: locks that outlive MAX_FILE_CHECKOUT_HOURS

ASSUME UsersAssumption == Admins \subseteq Users /\ Nobody \notin Users
ASSUME BoundsAssumption == MaxRequests \in Nat /\ MaxExpiries \in Nat

VARIABLES
  rows,      \* the vault_files rows of the file, in the order of insertion
  request,   \* request[q]: the request in slot q
  told,      \* history, told[r]: users whose check-out of row r succeeded and stands
  robbed,    \* history: rows whose lock was cleared by a request of another user
  facts,     \* history, facts[r]: deletions and restorations recorded of row r
  requests, expiries  \* requests and expiries still to come

vaultVars == <<rows, request, told, robbed, facts, requests, expiries>>

Row == [version: Nat, latest: BOOLEAN, deleted: BOOLEAN,
        holder: Users \union {Nobody}, expired: BOOLEAN]

Operations == {"checkOut", "checkIn", "unlock", "newVersion", "rewrite", "delete", "restore"}

(* seen: the holder as read.  tries: passes left of checkOutFile. *)
Request == [op: Operations \union {"none"}, user: Users \union {Nobody}, row: Nat,
            phase: {"read", "release", "write"}, seen: Users \union {Nobody}, tries: 0 .. 2]

NoRequest == [op |-> "none", user |-> Nobody, row |-> 1, phase |-> "read",
              seen |-> Nobody, tries |-> 0]

NewVersion(version) == [version |-> version, latest |-> TRUE, deleted |-> FALSE,
                        holder |-> Nobody, expired |-> FALSE]
NoFacts == [deleted |-> 0, restored |-> 0]

VaultInit == /\ rows = <<NewVersion(1)>>
             /\ request = [q \in Requests |-> NoRequest]
             /\ told = <<{}>> /\ robbed = {} /\ facts = <<NoFacts>>
             /\ requests = MaxRequests /\ expiries = MaxExpiries

-----------------------------------------------------------------------------
(* Mutant: a freed row keeps checked_out_at. *)
MutantFreeKeepsAge(row) == [row EXCEPT !.holder = Nobody]

Free(row) == [row EXCEPT !.holder = Nobody, !.expired = FALSE]

Held(row, u) == [row EXCEPT !.holder = u]
Aged(row) == [row EXCEPT !.expired = TRUE]
Removed(row, gone) == [row EXCEPT !.deleted = gone]
Recorded(counts, fact) == [counts EXCEPT ![fact] = @ + 1]

(* demoteLatestVersion: a superseded row is nobody's to edit. *)
Demoted(row) == [Free(row) EXCEPT !.latest = FALSE]

Moves(q, req) == request' = [request EXCEPT ![q] = req]
Keeps == UNCHANGED <<robbed, facts, requests, expiries>>
Ends(q) == Moves(q, NoRequest)

(* A refusal, or a transaction that matched nothing. *)
Refused(q) == Ends(q) /\ UNCHANGED <<rows, told>> /\ Keeps

Continue(q, req) == Moves(q, req) /\ UNCHANGED <<rows, told>> /\ Keeps

Arrive(q, op, u, r) ==
  /\ request[q].op = "none"
  /\ requests > 0
  /\ requests' = requests - 1
  /\ Moves(q, [NoRequest EXCEPT !.op = op, !.user = u, !.row = r,
                                !.tries = IF op = "checkOut" THEN 2 ELSE 0])
  /\ UNCHANGED <<rows, told, robbed, facts, expiries>>

(* What the operation asks of the row it reads. *)
Accepts(op, u, row) ==
  CASE op = "checkOut" -> ~row.deleted /\ (row.holder = Nobody \/ row.expired)
    [] op \in {"checkIn", "newVersion"} -> row.holder = u
    [] op = "unlock" -> row.holder # Nobody /\ (row.holder = u \/ u \in Admins)
    [] op = "rewrite" -> ~row.deleted /\ row.latest /\ row.holder = Nobody
    [] op = "delete" -> ~row.deleted /\ row.holder = Nobody
    [] OTHER -> row.deleted

Read(q) ==
  LET req == request[q]
      row == rows[req.row]
  IN /\ req.op # "none" /\ req.phase = "read"
     /\ IF (req.op = "checkOut" /\ req.tries = 0) \/ ~Accepts(req.op, req.user, row)
        THEN Refused(q)
        ELSE Continue(q, [req EXCEPT
               !.phase = IF req.op = "checkOut" /\ row.holder # Nobody
                         THEN "release" ELSE "write",
               !.seen = row.holder,
               !.tries = IF @ > 0 THEN @ - 1 ELSE 0])

Again(q) == Continue(q, [request[q] EXCEPT !.phase = "read"])

(* Mutant: the release of an expired lock does not look at its age again. *)
MutantReleaseAnyway(q) ==
  LET req == request[q] IN
  /\ req.op = "checkOut" /\ req.phase = "release"
  /\ rows' = [rows EXCEPT ![req.row] = Free(@)]
  /\ told' = [told EXCEPT ![req.row] = IF rows[req.row].expired THEN {} ELSE @]
  /\ Moves(q, [req EXCEPT !.phase = "write"])
  /\ Keeps

(* releaseExpiredLock: a lock taken since the read is not an old one. *)
ReleaseExpiredLock(q) ==
  LET req == request[q] IN
  /\ req.op = "checkOut" /\ req.phase = "release"
  /\ IF rows[req.row].expired
     THEN /\ rows' = [rows EXCEPT ![req.row] = Free(@)]
          /\ told' = [told EXCEPT ![req.row] = {}]
          /\ Moves(q, [req EXCEPT !.phase = "write"])
          /\ Keeps
     ELSE Again(q)

(* The request q of operation op is about to write. *)
Writes(q, op) == request[q].op = op /\ request[q].phase = "write"

(* claimFileLock *)
ClaimFileLock(q) ==
  LET req == request[q] IN
  /\ Writes(q, "checkOut")
  /\ IF rows[req.row].holder = Nobody /\ ~rows[req.row].deleted
     THEN /\ rows' = [rows EXCEPT ![req.row] = Held(@, req.user)]
          /\ told' = [told EXCEPT ![req.row] = @ \union {req.user}]
          /\ Ends(q)
          /\ Keeps
     ELSE Again(q)

(* Clears whatever lock is there, by the id of the row.  Only an administrator
   who read another's lock means to. *)
Clear(q, meant) ==
  LET req == request[q]
      row == rows[req.row]
  IN /\ rows' = [rows EXCEPT ![req.row] = Free(@)]
     /\ IF row.holder \in {Nobody, req.user} \/ meant
        THEN /\ told' = [told EXCEPT ![req.row] = IF meant THEN {} ELSE @ \ {req.user}]
             /\ UNCHANGED robbed
        ELSE /\ told' = [told EXCEPT ![req.row] = @ \ {req.user}]
             /\ robbed' = robbed \union {req.row}
     /\ Ends(q)
     /\ UNCHANGED <<facts, requests, expiries>>

(* A check-in without data. *)
Unlock(q) == Writes(q, "checkIn") /\ Clear(q, FALSE)

(* forceReleaseLock: one's own lock, or another's. *)
ForceReleaseLock(q) ==
  Writes(q, "unlock") /\ Clear(q, request[q].seen # request[q].user)

(* Mutant: the demotion does not ask for the latest row. *)
MutantSupersedeAny(q, owns, present) ==
  LET req == request[q] IN
  /\ IF owns = rows[req.row].holder
     THEN /\ rows' = Append([rows EXCEPT ![req.row] = Demoted(@)],
                            NewVersion(rows[req.row].version + 1))
          /\ told' = Append([told EXCEPT ![req.row] = @ \ {req.user}], {})
          /\ facts' = Append(facts, NoFacts)
     ELSE UNCHANGED <<rows, told, facts>>
  /\ Ends(q)
  /\ UNCHANGED <<robbed, requests, expiries>>

(* Demote the head and insert its successor, if the row is still the head and
   its lock is as the operation needs it. *)
Supersede(q, owns, present) ==
  LET req == request[q]
      row == rows[req.row]
  IN /\ IF row.latest /\ row.holder = owns /\ (present => ~row.deleted)
        THEN /\ rows' = Append([rows EXCEPT ![req.row] = Demoted(@)],
                               NewVersion(row.version + 1))
             /\ told' = Append([told EXCEPT ![req.row] = @ \ {req.user}], {})
             /\ facts' = Append(facts, NoFacts)
        ELSE UNCHANGED <<rows, told, facts>>
     /\ Ends(q)
     /\ UNCHANGED <<robbed, requests, expiries>>

(* A check-in with data; nothing keeps it off a deleted row. *)
CheckInFile(q) ==
  Writes(q, "newVersion") /\ Supersede(q, request[q].user, FALSE)

ReplaceContent(q) == Writes(q, "rewrite") /\ Supersede(q, Nobody, TRUE)

Records(q, fact) == /\ facts' = [facts EXCEPT ![request[q].row] = Recorded(@, fact)]
                    /\ Ends(q)
                    /\ UNCHANGED <<told, robbed, requests, expiries>>

(* deleteFile updates the row by its id: of two at once, each records a
   deletion, and a check-out between read and write does not stop it. *)
DeleteFile(q) == /\ Writes(q, "delete")
                 /\ rows' = [rows EXCEPT ![request[q].row] = Removed(@, TRUE)]
                 /\ Records(q, "deleted")

(* Mutant: a restoration does not ask for a deleted row. *)
MutantRestoreTwice(q) ==
  /\ Writes(q, "restore")
  /\ rows' = [rows EXCEPT ![request[q].row] = Removed(@, FALSE)]
  /\ Records(q, "restored")

RestoreFile(q) ==
  /\ Writes(q, "restore")
  /\ IF rows[request[q].row].deleted
     THEN /\ rows' = [rows EXCEPT ![request[q].row] = Removed(@, FALSE)]
          /\ Records(q, "restored")
     ELSE Refused(q)

-----------------------------------------------------------------------------
(* checked_out_at passes the cutoff. *)
Expire(r) == /\ rows[r].holder # Nobody /\ ~rows[r].expired
             /\ expiries > 0
             /\ expiries' = expiries - 1
             /\ rows' = [rows EXCEPT ![r] = Aged(@)]
             /\ UNCHANGED <<request, told, robbed, facts, requests>>

(* cleanupExpiredCheckouts, of the session cleanup job. *)
CleanupExpiredCheckouts ==
  /\ \E r \in DOMAIN rows : rows[r].expired
  /\ rows' = [r \in DOMAIN rows |-> IF rows[r].expired THEN Free(rows[r]) ELSE rows[r]]
  /\ told' = [r \in DOMAIN rows |-> IF rows[r].expired THEN {} ELSE told[r]]
  /\ UNCHANGED <<request, robbed, facts, requests, expiries>>

(* The process dies, or the store of the bytes fails. *)
Die(q) == request[q].op # "none" /\ Refused(q)

Step(q) == \/ Read(q) \/ ReleaseExpiredLock(q) \/ ClaimFileLock(q)
           \/ Unlock(q) \/ ForceReleaseLock(q) \/ CheckInFile(q)
           \/ ReplaceContent(q) \/ DeleteFile(q) \/ RestoreFile(q) \/ Die(q)

VaultNext ==
  \/ \E q \in Requests :
       \/ Step(q)
       \/ \E op \in Operations, u \in Users, r \in DOMAIN rows : Arrive(q, op, u, r)
  \/ \E r \in DOMAIN rows : Expire(r)
  \/ CleanupExpiredCheckouts

VaultSpec == VaultInit /\ [][VaultNext]_vaultVars

-----------------------------------------------------------------------------
(* Properties *)

VaultTypeOK ==
  /\ rows \in Seq(Row) /\ rows # <<>>
  /\ \A r \in DOMAIN rows : rows[r].expired => rows[r].holder # Nobody
  /\ told \in Seq(SUBSET Users) /\ Len(told) = Len(rows)
  /\ facts \in Seq([deleted: Nat, restored: Nat]) /\ Len(facts) = Len(rows)
  /\ request \in [Requests -> Request]
  /\ \A q \in Requests : request[q].row \in DOMAIN rows
  /\ robbed \subseteq DOMAIN rows
  /\ requests \in Nat /\ expiries \in Nat

(* However many check-ins and machine rewrites race, and wherever they die,
   the chain has exactly one head, the newest row, and numbers its versions
   without a gap or a double. *)
ChainIsIntact ==
  /\ \A r \in DOMAIN rows : rows[r].version = r
  /\ \A r \in DOMAIN rows : rows[r].latest <=> r = Len(rows)

(* A caller told that its check-out succeeded holds the lock, alone, until it
   checks in, an administrator breaks the lock or the lock grows old, unless
   the request of another user that had held the file cleared it by the id of
   the row. *)
HoldersHold ==
  \A r \in DOMAIN rows : \A u \in told[r] : rows[r].holder = u \/ r \in robbed

(* Two restores racing record one restoration: none without a deletion. *)
RestoredOnce ==
  \A r \in DOMAIN rows : /\ facts[r].restored <= facts[r].deleted
                         /\ rows[r].deleted => facts[r].restored < facts[r].deleted
=============================================================================
