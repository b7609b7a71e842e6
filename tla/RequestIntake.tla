---------------------------- MODULE RequestIntake ----------------------------
(***************************************************************************)
(* What happens to a signed request before its operation runs:             *)
(* verify_hmac (app/auth/hmac_auth.py) checks its time, waits for its body,*)
(* checks its signature and, for a sensitive route, claims its nonce in a  *)
(* ledger that restarts and replicas share; download_pdf                   *)
(* (app/services/download_service.py) then fetches the source it names.    *)
(*                                                                         *)
(* A request is delivered in copies, each handled on its own, with other   *)
(* copies' steps, time and restarts between its awaits.  Time is in units  *)
(* of the sensitive drift, file sizes in chunks.                           *)
(***************************************************************************)
EXTENDS Integers, Sequences, FiniteSets

CONSTANTS
  Copy,         \* deliveries of requests
  RequestOf,    \* the request [nonce, ts, sensitive, signed, host] each copy delivers
  Sources,      \* what a download may meet: [addresses, reply, declared, size, whole]
  Public,       \* the addresses that are public
  Drift, SensitiveDrift,  \* how far a timestamp may be off
  MaxEntries,   \* sensitive_nonce_cache_max_entries
  MaxSize,      \* max_upload_size_mb
  Undeclared,   \* a reply without a Content-Length
  NoSource,     \* no download yet
  MaxClock, MaxRestarts  \* bounds

ASSUME IntakeAssumption ==
  /\ Drift \in Nat /\ SensitiveDrift \in Nat /\ MaxEntries \in Nat /\ MaxSize \in Nat
  /\ MaxClock \in Nat /\ MaxRestarts \in Nat
  /\ \A c \in Copy : RequestOf[c].ts \in Nat
  /\ \A s \in Sources : s.addresses \in Seq(STRING) /\ s.size \in Nat
  /\ Undeclared \notin Int /\ NoSource \notin Sources

VARIABLES
  clock,     \* the service's time
  stage,     \* where each copy is, or how it was answered
  seen,      \* now_ms: the time at which a copy's timestamp was checked
  ledger,    \* the rows of sensitive_hmac_nonces, [nonce, expires]
  claimed,   \* history: when each copy claimed its nonce, Never before
  source,    \* what a copy's download meets
  held,      \* the chunks a copy's download has kept
  restarts

vars == <<clock, stage, seen, ledger, claimed, source, held, restarts>>
fetch == <<source, held>>

Never == -1
Waiting == {"sent", "body", "signature", "claim", "accepted", "connecting", "streaming"}
Answered == {"refused", "full", "replayed", "unavailable", "rejected", "failed", "lost", "downloaded"}

Moves(c, to) == stage' = [stage EXCEPT ![c] = to]
-----------------------------------------------------------------------------
(* verify_hmac. *)

MaxDrift(request) == IF request.sensitive THEN SensitiveDrift ELSE Drift
Fresh(request, now) == now - request.ts \in (-MaxDrift(request))..MaxDrift(request)

CheckTime(c) ==
  /\ stage[c] = "sent"
  /\ IF Fresh(RequestOf[c], clock)
     THEN Moves(c, "body") /\ seen' = [seen EXCEPT ![c] = clock]
     ELSE Moves(c, "refused") /\ UNCHANGED seen
  /\ UNCHANGED <<clock, ledger, claimed, fetch, restarts>>

\* The body arrives, at any time.
CheckSignature(c) ==
  /\ stage[c] = "body"
  /\ Moves(c, IF ~RequestOf[c].signed THEN "refused" ELSE IF RequestOf[c].sensitive THEN "claim" ELSE "accepted")
  /\ UNCHANGED <<clock, seen, ledger, claimed, fetch, restarts>>

\* Breaks Inv: a claim lasts from the time the request was first seen.
BadExpiry(c) == seen[c] + SensitiveDrift
\* A claim covers the whole time in which the request would be fresh.
Expiry(c) == RequestOf[c].ts + SensitiveDrift

\* Breaks Inv: the nonce is not looked for.
BadKnown(rows, nonce) == FALSE
\* The primary key of the ledger.
Known(rows, nonce) == \E row \in rows : row.nonce = nonce

\* One immediate transaction: the expired rows go, a full ledger and a nonce that is
\* there are refusals and roll back.
Claim(c) ==
  LET nonce == RequestOf[c].nonce
      left == {row \in ledger : row.expires >= seen[c]}
      full == Cardinality(left) >= MaxEntries
      known == Known(left, nonce) IN
  /\ stage[c] = "claim"
  /\ \/ full /\ Moves(c, "full") /\ UNCHANGED <<ledger, claimed>>
     \/ ~full /\ known /\ Moves(c, "replayed") /\ UNCHANGED <<ledger, claimed>>
     \/ /\ ~full /\ ~known /\ Moves(c, "accepted")
        /\ ledger' = left \union {[nonce |-> nonce, expires |-> Expiry(c)]}
        /\ claimed' = [claimed EXCEPT ![c] = clock]
  /\ UNCHANGED <<clock, seen, fetch, restarts>>

\* The ledger is locked by another process for too long, or its disk fails.
ClaimFails(c) ==
  /\ stage[c] = "claim" /\ Moves(c, "unavailable")
  /\ UNCHANGED <<clock, seen, ledger, claimed, fetch, restarts>>
-----------------------------------------------------------------------------
(* download_pdf. *)

\* The name is resolved once; each of its addresses must be public, and the first one
\* is the one that is used.
Resolve(c) ==
  /\ stage[c] = "accepted"
  /\ IF RequestOf[c].host # "allowed" THEN Moves(c, "rejected") /\ UNCHANGED source
     ELSE \E s \in Sources :
       /\ source' = [source EXCEPT ![c] = s]
       /\ Moves(c, IF s.addresses = <<>> \/ \E i \in DOMAIN s.addresses : s.addresses[i] \notin Public
                   THEN "rejected" ELSE "connecting")
  /\ UNCHANGED <<clock, seen, ledger, claimed, held, restarts>>

\* A redirect is not followed; a declared size is checked before anything is read.
Connect(c) ==
  LET s == source[c] IN
  /\ stage[c] = "connecting"
  /\ Moves(c, IF s.reply # "ok" \/ (s.declared # Undeclared /\ s.declared \notin 0..MaxSize)
              THEN "failed" ELSE "streaming")
  /\ UNCHANGED <<clock, seen, ledger, claimed, fetch, restarts>>

\* Breaks WholeOrNothing: the sizes that were declared are relied on.
BadTooLarge(c) == source[c].declared # Undeclared /\ held[c] + 1 > MaxSize
TooLarge(c) == held[c] + 1 > MaxSize

Chunk(c) ==
  /\ stage[c] = "streaming" /\ held[c] < source[c].size
  /\ IF TooLarge(c) THEN Moves(c, "failed") /\ UNCHANGED held
     ELSE held' = [held EXCEPT ![c] = @ + 1] /\ UNCHANGED stage
  /\ UNCHANGED <<clock, seen, ledger, claimed, source, restarts>>

\* The end of the stream; httpx raises for a message that is cut short.
StreamEnds(c) ==
  /\ stage[c] = "streaming" /\ held[c] = source[c].size
  /\ Moves(c, IF source[c].whole THEN "downloaded" ELSE "failed")
  /\ UNCHANGED <<clock, seen, ledger, claimed, fetch, restarts>>

\* A timeout or a network error between any two reads.
NetworkFails(c) ==
  /\ stage[c] \in {"connecting", "streaming"} /\ Moves(c, "failed")
  /\ UNCHANGED <<clock, seen, ledger, claimed, fetch, restarts>>
-----------------------------------------------------------------------------
Tick ==
  /\ clock < MaxClock /\ clock' = clock + 1
  /\ UNCHANGED <<stage, seen, ledger, claimed, fetch, restarts>>

\* The service stops: requests in it are lost, the ledger is kept.
Restart ==
  /\ restarts < MaxRestarts /\ restarts' = restarts + 1
  /\ stage' = [c \in Copy |-> IF stage[c] \in Waiting \ {"sent"} THEN "lost" ELSE stage[c]]
  /\ UNCHANGED <<clock, seen, ledger, claimed, fetch>>

Init ==
  /\ clock = 0 /\ restarts = 0 /\ ledger = {}
  /\ stage = [c \in Copy |-> "sent"]
  /\ seen = [c \in Copy |-> Never] /\ claimed = [c \in Copy |-> Never]
  /\ source = [c \in Copy |-> NoSource] /\ held = [c \in Copy |-> 0]

Next ==
  \/ \E c \in Copy :
       \/ CheckTime(c) \/ CheckSignature(c) \/ Claim(c) \/ ClaimFails(c)
       \/ Resolve(c) \/ Connect(c) \/ Chunk(c) \/ StreamEnds(c) \/ NetworkFails(c)
  \/ Tick \/ Restart

Spec == Init /\ [][Next]_vars
-----------------------------------------------------------------------------
(* Properties. *)

\* Rows and histories keep their types; a copy has a download only once it was accepted.
TypeOK ==
  /\ clock \in 0..MaxClock /\ restarts \in 0..MaxRestarts
  /\ stage \in [Copy -> Waiting \cup Answered]
  /\ \A c \in Copy : seen[c] \in -1..clock /\ claimed[c] \in -1..clock /\ held[c] \in Nat
  /\ \A row \in ledger : row.expires \in Nat
  /\ Cardinality(ledger) <= MaxEntries

InWindow(c, t) == t <= RequestOf[c].ts + SensitiveDrift

\* "The cache entry must cover the request's full acceptance window"
\* (hmac_auth.py:120): of the copies of one sensitive request at most one gets through
\* while the request is fresh, whatever the order of their steps, whoever else clears
\* the ledger and however often the service restarts.
AcceptedOnce ==
  \A c, d \in Copy :
    /\ c # d /\ RequestOf[c] = RequestOf[d]
    /\ claimed[c] # Never /\ claimed[d] # Never
    => ~(InWindow(c, claimed[c]) /\ InWindow(d, claimed[d]))

\* The ledger keeps its form and its limit, and no request is accepted twice
\* (hmac_auth.py:18-127).
Inv == TypeOK /\ AcceptedOnce

\* An operation gets all of its source or nothing: the file it is given is whole, from
\* the allowed host at an address that was checked, and neither it nor a download in
\* progress is larger than the limit, whatever size was declared.
WholeOrNothing ==
  \A c \in Copy :
    /\ held[c] <= MaxSize
    /\ stage[c] = "downloaded" =>
         /\ RequestOf[c].host = "allowed" /\ RequestOf[c].signed
         /\ source[c].whole /\ held[c] = source[c].size
         /\ source[c].addresses[1] \in Public
=============================================================================
