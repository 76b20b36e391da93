------------------------------ MODULE SeqQuote ------------------------------
(***************************************************************************)
(* The quote slot of src/bridge/seq_quote.rs: one writer (the engine's hot *)
(* loop) publishes a quote and the occupancy it was written under, any     *)
(* number of readers take a snapshot without a lock.                       *)
(*                                                                         *)
(* The code's correctness is a statement about memory ordering, so memory  *)
(* is modelled with the views of the release/acquire fragment of the Rust  *)
(* (C++20) memory model rather than as one interleaved store.  A location  *)
(* is the list of the messages stored to it; a message carries the value   *)
(* and the view it releases; a thread has a view, the index below which it *)
(* may no longer read each location.  A relaxed load may return any        *)
(* message at or above the view.  With one writer the index of a message   *)
(* is its place in the modification order.                                 *)
(***************************************************************************)
EXTENDS Integers, Sequences

CONSTANTS
  Words,     \* the payload: the quote's words and the generation word
  Readers,   \* the threads that call read_with_generation
  MaxWrites  \* bound on the calls of SeqQuote::write

ASSUME WordsAssumption == Words # {}
ASSUME MaxWritesAssumption == MaxWrites \in Nat

(***************************************************************************)
(* The version counter is a location of its own, different from any word.  *)
(***************************************************************************)
Version == "version"
ASSUME VersionAssumption == Version \notin Words
Locs == Words \cup {Version}

VARIABLES
  mem,    \* location -> sequence of messages; message i has index i
  wpc,    \* the writer's place in SeqQuote::write
  wcur,   \* the writer's view
  wrel,   \* the view at the writer's last release fence
  done,   \* the words the current write has stored
  quote,  \* how many quotes the writer has been given (the current one's number)
  rpc,    \* each reader's place in read_with_generation
  rcur,   \* each reader's view
  racq,   \* what each reader's next acquire fence adds to its view
  v1,     \* the version each reader started from
  got,    \* the words each reader has loaded since v1
  words,  \* what it loaded
  out     \* the last snapshot each reader returned, with its version

wvars == <<wpc, wcur, wrel, done, quote>>
rvars == <<rpc, rcur, racq, v1, got, words, out>>
vars == <<mem, wvars, rvars>>

View == [Locs -> Nat]
ZeroView == [l \in Locs |-> 0]
Join(u, w) == [l \in Locs |-> IF u[l] >= w[l] THEN u[l] ELSE w[l]]

(* Indices start at 0, the message new() stores. *)
Last(l) == Len(mem[l]) - 1
Msg(l, i) == mem[l][i + 1]

NoWords == [w \in Words |-> 0]

(***************************************************************************)
(* SeqQuote::new: version 0, every word and the generation 0.  The quote   *)
(* numbered n is the payload whose every word holds n: a snapshot mixing   *)
(* two writes is one whose words disagree.                                 *)
(***************************************************************************)
Init ==
  /\ mem = [l \in Locs |-> <<[val |-> 0, view |-> ZeroView]>>]
  /\ wpc = "idle"
  /\ wcur = ZeroView
  /\ wrel = ZeroView
  /\ done = {}
  /\ quote = 0
  /\ rpc = [r \in Readers |-> "idle"]
  /\ rcur = [r \in Readers |-> ZeroView]
  /\ racq = [r \in Readers |-> ZeroView]
  /\ v1 = [r \in Readers |-> 0]
  /\ got = [r \in Readers |-> {}]
  /\ words = [r \in Readers |-> NoWords]
  /\ out = [r \in Readers |-> [version |-> 0, words |-> NoWords]]

-----------------------------------------------------------------------------
(***************************************************************************)
(* The writer.                                                             *)
(***************************************************************************)

(* A store by the writer: the message is placed last, its index enters the *)
(* writer's view, and it releases the view given.                          *)
Store(l, val, view) ==
  /\ mem' = [mem EXCEPT ![l] = Append(@, [val |-> val, view |-> view])]
  /\ wcur' = [wcur EXCEPT ![l] = Len(mem[l])]

(* Mutant: fetch_sub for fetch_add. *)
FetchSub ==
  LET last == Msg(Version, Last(Version))
      here == [Join(wcur, last.view) EXCEPT ![Version] = Len(mem[Version])]
  IN  /\ mem' = [mem EXCEPT ![Version] =
                   Append(@, [val |-> last.val - 1, view |-> here])]
      /\ wcur' = here

(* version.fetch_add(1, order): an RMW reads the last message and continues *)
(* its release sequence, so the view it releases includes that message's.  *)
FetchAdd ==
  LET last == Msg(Version, Last(Version))
      here == [Join(wcur, last.view) EXCEPT ![Version] = Len(mem[Version])]
  IN  /\ mem' = [mem EXCEPT ![Version] =
                   Append(@, [val |-> last.val + 1, view |-> here])]
      /\ wcur' = here

(* version.fetch_add(1, AcqRel): odd from here, a write in flight. *)
BeginWrite ==
  /\ wpc = "idle"
  /\ quote < MaxWrites
  /\ FetchAdd
  /\ quote' = quote + 1
  /\ done' = {}
  /\ wpc' = "fence"
  /\ UNCHANGED <<wrel, rvars>>

(* Mutant: no fence between the odd version and the payload. *)
ReleaseFenceMissing ==
  /\ wpc = "fence"
  /\ wpc' = "store"
  /\ UNCHANGED <<mem, wcur, wrel, done, quote, rvars>>

(* fence(Release): what every later relaxed store releases. *)
ReleaseFence ==
  /\ wpc = "fence"
  /\ wrel' = wcur
  /\ wpc' = "store"
  /\ UNCHANGED <<mem, wcur, done, quote, rvars>>

(* slot.store(word, Relaxed), and the generation's store: in any order, for *)
(* nothing orders one relaxed store before another.                        *)
StoreWord(w) ==
  /\ wpc = "store"
  /\ w \in Words \ done
  /\ Store(w, quote, wrel)
  /\ done' = done \cup {w}
  /\ UNCHANGED <<wpc, wrel, quote, rvars>>

(* Mutant: the write ends without the second fetch_add, the version odd. *)
EndWriteLeavesOdd ==
  /\ wpc = "store"
  /\ done = Words
  /\ wpc' = "idle"
  /\ UNCHANGED <<mem, wcur, wrel, done, quote, rvars>>

(* version.fetch_add(1, Release): even, the write is whole. *)
EndWrite ==
  /\ wpc = "store"
  /\ done = Words
  /\ FetchAdd
  /\ wpc' = "idle"
  /\ UNCHANGED <<wrel, done, quote, rvars>>

-----------------------------------------------------------------------------
(***************************************************************************)
(* A reader.                                                               *)
(***************************************************************************)

(* Index i of location l may be read by r: coherence forbids going back. *)
Readable(r, l, i) == i \in rcur[r][l] .. Last(l)

(* version.load(Acquire): the view the message releases is taken at once. *)
(* An odd version sends the reader round the loop again.                   *)
LoadV1(r) ==
  /\ rpc[r] = "idle"
  /\ \E i \in 0 .. Last(Version) :
       /\ Readable(r, Version, i)
       /\ LET m == Msg(Version, i)
              here == [Join(rcur[r], m.view) EXCEPT ![Version] = i]
          IN  /\ rcur' = [rcur EXCEPT ![r] = here]
              /\ racq' = [racq EXCEPT ![r] = Join(@, m.view)]
              /\ IF m.val % 2 # 0
                   THEN UNCHANGED <<rpc, v1>>
                   ELSE /\ v1' = [v1 EXCEPT ![r] = m.val]
                        /\ rpc' = [rpc EXCEPT ![r] = "words"]
  /\ got' = [got EXCEPT ![r] = {}]
  /\ UNCHANGED <<mem, wvars, words, out>>

(* slot.load(Relaxed), and the generation's: any message not already older *)
(* than r's view.  The message's view waits for the acquire fence.         *)
LoadWord(r, w) ==
  /\ rpc[r] = "words"
  /\ w \in Words \ got[r]
  /\ \E i \in 0 .. Last(w) :
       /\ Readable(r, w, i)
       /\ rcur' = [rcur EXCEPT ![r] = [@ EXCEPT ![w] = i]]
       /\ racq' = [racq EXCEPT ![r] = Join(@, Msg(w, i).view)]
       /\ words' = [words EXCEPT ![r] = [@ EXCEPT ![w] = Msg(w, i).val]]
  /\ got' = [got EXCEPT ![r] = @ \cup {w}]
  /\ UNCHANGED <<mem, wvars, rpc, v1, out>>

(* fence(Acquire): the views of the messages loaded so far are taken. *)
AcquireFence(r) ==
  /\ rpc[r] = "words"
  /\ got[r] = Words
  /\ rcur' = [rcur EXCEPT ![r] = Join(@, racq[r])]
  /\ rpc' = [rpc EXCEPT ![r] = "check"]
  /\ UNCHANGED <<mem, wvars, racq, v1, got, words, out>>

(* version.load(Relaxed), and the comparison with v1: the same version on  *)
(* both sides returns the snapshot, another one goes round the loop.       *)
LoadV2(r) ==
  /\ rpc[r] = "check"
  /\ \E i \in 0 .. Last(Version) :
       /\ Readable(r, Version, i)
       /\ rcur' = [rcur EXCEPT ![r] = [@ EXCEPT ![Version] = i]]
       /\ racq' = [racq EXCEPT ![r] = Join(@, Msg(Version, i).view)]
       /\ out' = IF Msg(Version, i).val = v1[r]
                   THEN [out EXCEPT ![r] = [version |-> v1[r], words |-> words[r]]]
                   ELSE out
  /\ rpc' = [rpc EXCEPT ![r] = "idle"]
  /\ UNCHANGED <<mem, wvars, v1, got, words>>

-----------------------------------------------------------------------------
Writer ==
  \/ BeginWrite
  \/ ReleaseFence
  \/ \E w \in Words : StoreWord(w)
  \/ EndWrite

Reader(r) ==
  \/ LoadV1(r)
  \/ \E w \in Words : LoadWord(r, w)
  \/ AcquireFence(r)
  \/ LoadV2(r)

Next == Writer \/ \E r \in Readers : Reader(r)

Spec == Init /\ [][Next]_vars

(***************************************************************************)
(* A write once begun is finished, a reader keeps reading, and a load does *)
(* not return an overwritten value for ever: the memory model asks that a  *)
(* store become visible to loads in a finite time.                         *)
(***************************************************************************)
LoadsNewest(r, l) == rcur'[r][l] = Last(l)
Fairness ==
  /\ WF_vars(ReleaseFence \/ (\E w \in Words : StoreWord(w)) \/ EndWrite)
  /\ \A r \in Readers :
       /\ SF_vars(LoadV1(r) /\ LoadsNewest(r, Version))
       /\ \A w \in Words : SF_vars(LoadWord(r, w) /\ LoadsNewest(r, w))
       /\ WF_vars(AcquireFence(r))
       /\ SF_vars(LoadV2(r) /\ LoadsNewest(r, Version))

FairSpec == Spec /\ Fairness

-----------------------------------------------------------------------------
(***************************************************************************)
(* Properties.                                                             *)
(***************************************************************************)

(* Every variable has its type. *)
Message == [val : Nat, view : View]
TypeOK ==
  /\ mem \in [Locs -> Seq(Message)]
  /\ \A l \in Locs : Len(mem[l]) > 0
  /\ wpc \in {"idle", "fence", "store"}
  /\ wcur \in View
  /\ wrel \in View
  /\ done \subseteq Words
  /\ quote \in Nat
  /\ rpc \in [Readers -> {"idle", "words", "check"}]
  /\ rcur \in [Readers -> View]
  /\ racq \in [Readers -> View]
  /\ v1 \in [Readers -> Nat]
  /\ got \in [Readers -> SUBSET Words]
  /\ words \in [Readers -> [Words -> Nat]]
  /\ out \in [Readers -> [version : Nat, words : [Words -> Nat]]]

(* A snapshot read_with_generation returns comes from one write: every     *)
(* word, and the generation, is the one the write that left the version    *)
(* stored.  A quote of the contract that left a slot is never returned     *)
(* with the generation of the contract that took it.                       *)
SnapshotIsWhole ==
  \A r \in Readers : \A w \in Words : 2 * out[r].words[w] = out[r].version

(* A reader is not left spinning: once the writer has no more to write,    *)
(* every reader's snapshot becomes, and stays, the last quote written.     *)
(* read_with_generation spins on an odd version and on a version that      *)
(* moved, so this needs every write to leave the version even.             *)
LastQuoteIsRead ==
  <>[](\A r \in Readers : \A w \in Words : out[r].words[w] = quote)
=============================================================================
