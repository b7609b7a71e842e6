------------------------------ MODULE FileCache ------------------------------
(***************************************************************************)
(* The file cache, app/services/cache_service.py: an entry is a data file  *)
(* and a metadata file, written in place one after the other and removed    *)
(* one after the other.  get_cached, put_cached and the pruning at its end  *)
(* are sequences of file operations; the event loop and the threads of      *)
(* background tasks interleave theirs, a write may raise, the process may   *)
(* die between any two.                                                     *)
(*                                                                         *)
(* What a file holds is "part" (empty or cut off) or the whole; every entry *)
(* has the size 1.  The module has no next-state relation of its own: who   *)
(* calls is said in BackgroundTasks.                                        *)
(***************************************************************************)
EXTENDS Integers, FiniteSets, SequencesExt

CONSTANTS
  Key,        \* (content hash, operation, parameters)
  Json,       \* the keys whose results are dicts or lists, not bytes
  Actor,      \* the event loop and the threads
  Stored,     \* the entries an earlier process has left
  Limit,      \* CACHE_MAX_SIZE_MB, in entries (0: an entry is larger than that)
  MaxFaults,  \* bound: OSErrors of a write
  NoKey

ASSUME KeyAssumption == 
  IsFiniteSet(Key) /\ Json \subseteq Key /\ Stored \subseteq Key /\ NoKey \notin Key
ASSUME CacheBoundAssumption == Limit \in Nat /\ MaxFaults \in Nat

VARIABLES
  dat,     \* each key's .dat file: "none", "part" or "whole"
  meta,    \* its .meta file: "none", "part", "fresh" or "expired" (TTL passed)
  byAge,   \* the keys with a .dat file, the least recently modified first
  call,    \* where each actor is in a call of the cache
  faults   \* OSErrors so far

files == <<dat, meta, byAge>>
cacheVars == <<files, call, faults>>

CallStep == {"idle", "look", "load", "read", "purge", "purgemeta",
             "open", "write", "label", "stamp", "list", "stat", "evict", "evictmeta"}

\* linked: the file the actor writes to is still in the directory; left, over: the
\* entries it may still evict and the size it has to get rid of; hit: what
\* get_cached returned.
NoCall == [pc |-> "idle", key |-> NoKey, linked |-> FALSE, left |-> <<>>, over |-> 0, hit |-> "none"]

CacheInit ==
  /\ dat = [k \in Key |-> IF k \in Stored THEN "whole" ELSE "none"]
  /\ meta = [k \in Key |-> IF k \in Stored THEN "fresh" ELSE "none"]
  /\ byAge = SetToSeq(Stored)
  /\ call = [a \in Actor |-> NoCall]
  /\ faults = 0

Free(a) == call[a].pc = "idle"
Step(a, pc) == call[a].pc = pc
Proceed(a, pc) == call' = [call EXCEPT ![a].pc = pc]
Answer(a, hit) == call' = [call EXCEPT ![a] = [NoCall EXCEPT !.hit = hit]]

Raises == faults < MaxFaults /\ faults' = faults + 1

\* os.remove: whoever has the file open goes on writing to a file nobody will find.
Unlinked(k, holding, a, state) ==
  call' = [b \in Actor |->
    IF b = a THEN state
    ELSE IF call[b].pc = holding /\ call[b].key = k THEN [call[b] EXCEPT !.linked = FALSE]
    ELSE call[b]]

RemoveDat(a, k, state) ==
  /\ dat' = [dat EXCEPT ![k] = "none"]
  /\ byAge' = RemoveFirst(byAge, k)
  /\ Unlinked(k, "write", a, state)
  /\ UNCHANGED <<meta, faults>>

RemoveMeta(a, k, state) ==
  /\ meta' = [meta EXCEPT ![k] = "none"]
  /\ Unlinked(k, "stamp", a, state)
  /\ UNCHANGED <<dat, byAge, faults>>

Touched(k) == Append(RemoveFirst(byAge, k), k)

\* The order of the modification times, of some of the keys.
Sorted(names) ==
  {order \in [1..Cardinality(names) -> names] :
     \A m, n \in DOMAIN order : m < n =>
       \E i, k \in DOMAIN byAge : i < k /\ byAge[i] = order[m] /\ byAge[k] = order[n]}

-----------------------------------------------------------------------------
(* get_cached *)

Get(a, k) ==
  /\ Free(a)
  /\ call' = [call EXCEPT ![a] = [NoCall EXCEPT !.pc = "look", !.key = k]]
  /\ UNCHANGED <<files, faults>>

Look(a) ==
  LET k == call[a].key IN
  /\ Step(a, "look")
  /\ IF meta[k] = "none" \/ dat[k] = "none" THEN Answer(a, "none") ELSE Proceed(a, "load")
  /\ UNCHANGED <<files, faults>>

Load(a) ==
  /\ Step(a, "load")
  /\ CASE meta[call[a].key] \in {"none", "part"} -> Answer(a, "none")
       [] meta[call[a].key] = "expired" -> Proceed(a, "purge")
       [] OTHER -> Proceed(a, "read")
  /\ UNCHANGED <<files, faults>>

Purge(a) ==
  /\ Step(a, "purge")
  /\ RemoveDat(a, call[a].key, [call[a] EXCEPT !.pc = "purgemeta"])

PurgeMeta(a) ==
  /\ Step(a, "purgemeta")
  /\ RemoveMeta(a, call[a].key, NoCall)

\* Breaks Inv: a JSON result is not parsed again.
BadRead(a) ==
  /\ Step(a, "read")
  /\ Answer(a, dat[call[a].key])
  /\ UNCHANGED <<files, faults>>

\* A cut off JSON text does not parse; cut off bytes are returned as they are.
Read(a) ==
  LET k == call[a].key IN
  /\ Step(a, "read")
  /\ Answer(a, IF k \in Json /\ dat[k] = "part" THEN "none" ELSE dat[k])
  /\ UNCHANGED <<files, faults>>

-----------------------------------------------------------------------------
(* put_cached *)

Put(a, k) ==
  /\ Free(a)
  /\ call' = [call EXCEPT ![a] = [NoCall EXCEPT !.pc = "open", !.key = k]]
  /\ UNCHANGED <<files, faults>>

\* open(data_path, "wb") truncates; an OSError skips the rest and goes on to prune.
OpenDat(a) ==
  LET k == call[a].key IN
  /\ Step(a, "open")
  /\ \/ /\ dat' = [dat EXCEPT ![k] = "part"]
        /\ byAge' = Touched(k)
        /\ call' = [call EXCEPT ![a].pc = "write", ![a].linked = TRUE]
        /\ UNCHANGED <<meta, faults>>
     \/ Raises /\ Proceed(a, "list") /\ UNCHANGED files

WriteDat(a) ==
  LET k == call[a].key IN
  /\ Step(a, "write")
  /\ \/ /\ IF call[a].linked
             THEN dat' = [dat EXCEPT ![k] = "whole"] /\ byAge' = Touched(k)
             ELSE UNCHANGED <<dat, byAge>>
        /\ Proceed(a, "label")
        /\ UNCHANGED <<meta, faults>>
     \/ Raises /\ Proceed(a, "list") /\ UNCHANGED files

OpenMeta(a) ==
  /\ Step(a, "label")
  /\ \/ /\ meta' = [meta EXCEPT ![call[a].key] = "part"]
        /\ call' = [call EXCEPT ![a].pc = "stamp", ![a].linked = TRUE]
        /\ UNCHANGED <<dat, byAge, faults>>
     \/ Raises /\ Proceed(a, "list") /\ UNCHANGED files

WriteMeta(a) ==
  /\ Step(a, "stamp")
  /\ \/ /\ meta' = IF call[a].linked THEN [meta EXCEPT ![call[a].key] = "fresh"] ELSE meta
        /\ Proceed(a, "list")
        /\ UNCHANGED <<dat, byAge, faults>>
     \/ Raises /\ Proceed(a, "list") /\ UNCHANGED files

-----------------------------------------------------------------------------
(* _prune_if_needed *)

ListEntries(a) ==
  /\ Step(a, "list")
  /\ call' = [call EXCEPT ![a].pc = "stat", ![a].left = byAge]
  /\ UNCHANGED <<files, faults>>

\* A file that went since the listing makes os.stat raise and ends the pruning.
StatEntries(a) ==
  LET names == ToSet(call[a].left)
      over == Cardinality(names) - Limit IN
  /\ Step(a, "stat")
  /\ IF names \subseteq ToSet(byAge) /\ over > 0
       THEN \E order \in Sorted(names) :
              call' = [call EXCEPT ![a].pc = "evict", ![a].left = order, ![a].over = over]
       ELSE Answer(a, "none")
  /\ UNCHANGED <<files, faults>>

Evict(a) ==
  /\ Step(a, "evict")
  /\ RemoveDat(a, Head(call[a].left), [call[a] EXCEPT !.pc = "evictmeta"])

EvictMeta(a) ==
  LET c == call[a] IN
  /\ Step(a, "evictmeta")
  /\ RemoveMeta(a, Head(c.left),
       IF c.over = 1 \/ Len(c.left) = 1 THEN NoCall
       ELSE [c EXCEPT !.pc = "evict", !.left = Tail(@), !.over = @ - 1])

CacheStep(a) ==
  \/ Look(a) \/ Load(a) \/ Purge(a) \/ PurgeMeta(a) \/ Read(a)
  \/ OpenDat(a) \/ WriteDat(a) \/ OpenMeta(a) \/ WriteMeta(a)
  \/ ListEntries(a) \/ StatEntries(a) \/ Evict(a) \/ EvictMeta(a)

\* The TTL of an entry passes.
Expire(k) ==
  /\ meta[k] = "fresh"
  /\ meta' = [meta EXCEPT ![k] = "expired"]
  /\ UNCHANGED <<dat, byAge, call, faults>>

\* The files outlive the process.
CacheCrash ==
  /\ call' = [a \in Actor |-> NoCall]
  /\ UNCHANGED <<files, faults>>

-----------------------------------------------------------------------------

CacheTypeOK ==
  /\ dat \in [Key -> {"none", "part", "whole"}]
  /\ meta \in [Key -> {"none", "part", "fresh", "expired"}]
  /\ byAge \in Seq(Key) /\ IsInjective(byAge) /\ ToSet(byAge) = {k \in Key : dat[k] # "none"}
  /\ call \in [Actor -> [pc : CallStep, key : Key \cup {NoKey}, linked : BOOLEAN,
                         left : Seq(Key), over : Nat, hit : {"none", "part", "whole"}]]
  /\ faults \in Nat

=============================================================================
