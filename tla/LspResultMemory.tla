--------------------------- MODULE LspResultMemory ---------------------------
(***************************************************************************)
(* crates/vfs/src/lib.rs and memory_manager.rs: the memory of the language *)
(* server into which the answers of the cargo and rustc it runs are        *)
(* written.  The server and the VFS's own allocator of results grow that   *)
(* memory side by side: pages are first reserved, then published by a      *)
(* compare-and-exchange of the logical size.  An answer is two results,    *)
(* stdout and stderr, which the server gives back one by one.              *)
(*                                                                         *)
(* Addresses are counted in bytes of a small page.                         *)
(***************************************************************************)
EXTENDS Naturals, Sequences, FiniteSets, SequencesExt

CONSTANTS Hosts,        \* the calls of host_run_cargo / host_run_rustc under way
          Sizes,        \* lengths of an output; 0 is an empty one
          Align, PageBytes, MaxPages,
          MaxAnswers, None

\* No call is None, and no claim is.
MemoryAssumption ==
  /\ {Align, PageBytes, MaxPages} \subseteq Nat \ {0} /\ MaxAnswers \in Nat /\ Sizes \subseteq Nat
  /\ None \notin Hosts /\ None \notin [pages : Nat, current : Nat, reserved : BOOLEAN]

VARIABLES free,         \* free_regions: a sequence of [ptr, capacity]
          allocations,  \* a function from pointers to [requested, capacity]
          lock,         \* who holds LSP_RESULT_ALLOCATOR
          claim,        \* claim_lsp_result_pages() under way, or None
          logical, physical, guestPages,
          reserved,     \* LSP_RESERVE_ONCE
          host, answers   \* the calls, and how many there were

memoryVars == <<free, allocations, lock, claim, logical, physical, guestPages, reserved, host,
                answers>>

Regions == [ptr : Nat, capacity : Nat]
Empty == [ptr |-> 0, len |-> 0]
\* align up
Capacity(len) == ((len + Align - 1) \div Align) * Align
Pages(capacity) == (capacity + PageBytes - 1) \div PageBytes
Bytes(r) == r.ptr..(r.ptr + r.capacity - 1)

\* Page 0 is the server's own: no result has the null pointer.
Init == /\ free = <<>> /\ allocations = << >> /\ lock = None /\ claim = None
        /\ logical = 1 /\ physical = 1 /\ guestPages = {0} /\ reserved = FALSE
        /\ host = [h \in Hosts |-> [at |-> "idle", lens |-> <<0, 0>>, out |-> Empty, err |-> Empty]]
        /\ answers = 0

(* --- LspResultAllocator ---------------------------------------------------- *)

Fits(regions, capacity) == {i \in DOMAIN regions : regions[i].capacity >= capacity}
FirstFit(regions, capacity) ==
  CHOOSE i \in Fits(regions, capacity) : \A j \in Fits(regions, capacity) : i <= j

\* Vec::swap_remove
SwapRemove(s, i) == [k \in 1..(Len(s) - 1) |-> IF k = i THEN s[Len(s)] ELSE s[k]]

\* allocate() in a region that is large enough: the regions left, and the pointer.
Carve(regions, capacity) ==
  LET i == FirstFit(regions, capacity)  r == regions[i] IN
    [ptr |-> r.ptr,
     rest |-> IF r.capacity = capacity THEN SwapRemove(regions, i)
              ELSE [regions EXCEPT ![i] = [ptr |-> r.ptr + capacity, capacity |-> r.capacity - capacity]]]

Without(f, p) == [q \in DOMAIN f \ {p} |-> f[q]]
With(f, p, v) == [q \in DOMAIN f \cup {p} |-> IF q = p THEN v ELSE f[q]]

\* The merge of free(), of regions that do not overlap: each run of regions that begin
\* where another ends becomes one, and the runs are in the order of their addresses.
Nth(numbers, k) == CHOOSE n \in numbers : Cardinality({m \in numbers : m <= n}) = k
Merged(regions) ==
  LET starts == {r.ptr : r \in Range(regions)}
      ends == {r.ptr + r.capacity : r \in Range(regions)}
      heads == starts \ ends
      RunEnd(h) == CHOOSE e \in ends \ starts : e > h /\ \A d \in ends \ starts : d > h => e <= d
  IN [k \in 1..Cardinality(heads) |->
        [ptr |-> Nth(heads, k), capacity |-> RunEnd(Nth(heads, k)) - Nth(heads, k)]]

\* free(): a pointer that is not allocated, or not with that length, is refused.
Freeable(ptr, len) == ptr \in DOMAIN allocations /\ allocations[ptr].requested = len
Released(ptr, len) ==
  IF ~Freeable(ptr, len) THEN UNCHANGED <<free, allocations>>
  ELSE /\ free' = Merged(Append(free, [ptr |-> ptr, capacity |-> allocations[ptr].capacity]))
       /\ allocations' = Without(allocations, ptr)

(* --- write_cargo_result() -------------------------------------------------- *)

\* The first result is stdout, the second stderr.
Stage(h) == IF host[h].at = "stdout" THEN 1 ELSE 2
Wanted(h) == host[h].lens[Stage(h)]

\* A result is there: go on with the other, or hand both over.
Result(h, r) ==
  host' = [host EXCEPT ![h] = IF @.at = "stdout" THEN [@ EXCEPT !.at = "stderr", !.out = r]
                              ELSE [@ EXCEPT !.at = "held", !.err = r]]

Answers(h) ==
  /\ host[h].at = "idle" /\ answers < MaxAnswers /\ answers' = answers + 1
  /\ \E out, err \in Sizes :
       host' = [host EXCEPT ![h] = [at |-> "stdout", lens |-> <<out, err>>, out |-> Empty, err |-> Empty]]
  /\ UNCHANGED <<free, allocations, lock, claim, logical, physical, guestPages, reserved>>

\* write_lsp_result_bytes() of nothing: no memory, and the null pointer.
Nothing(h) ==
  /\ host[h].at \in {"stdout", "stderr"} /\ Wanted(h) = 0 /\ lock = None
  /\ Result(h, Empty)
  /\ UNCHANGED <<free, allocations, lock, claim, logical, physical, guestPages, reserved, answers>>

\* The bytes are copied under the lock.
Written(h, regions) ==
  LET carved == Carve(regions, Capacity(Wanted(h))) IN
    /\ free' = carved.rest
    /\ allocations' = With(allocations, carved.ptr,
                           [requested |-> Wanted(h), capacity |-> Capacity(Wanted(h))])
    /\ Result(h, [ptr |-> carved.ptr, len |-> Wanted(h)])

Allocate(h) ==
  /\ host[h].at \in {"stdout", "stderr"} /\ Wanted(h) > 0 /\ lock = None
  /\ Fits(free, Capacity(Wanted(h))) # {}
  /\ Written(h, free)
  /\ UNCHANGED <<lock, claim, logical, physical, guestPages, reserved, answers>>

\* No memory: what the first result took is freed.
Fails(h) ==
  /\ host' = [host EXCEPT ![h].at = "idle", ![h].out = Empty, ![h].err = Empty]
  /\ Released(host[h].out.ptr, host[h].out.len)

(* --- claim_lsp_result_pages(), under the allocator's lock -------------------- *)

\* The logical size is read, then as many pages are reserved.
ReadSize(h) ==
  /\ host[h].at \in {"stdout", "stderr"} /\ Wanted(h) > 0 /\ lock = None
  /\ Fits(free, Capacity(Wanted(h))) = {}
  /\ lock' = h
  /\ claim' = [pages |-> Pages(Capacity(Wanted(h))), current |-> logical, reserved |-> FALSE]
  /\ UNCHANGED <<free, allocations, logical, physical, guestPages, reserved, host, answers>>

Reserve(h) ==
  /\ lock = h /\ ~claim.reserved
  /\ physical + claim.pages <= MaxPages
  /\ claim' = [claim EXCEPT !.reserved = TRUE]
  /\ physical' = physical + claim.pages
  /\ UNCHANGED <<free, allocations, lock, logical, guestPages, reserved, host, answers>>

ReserveFails(h) ==
  /\ lock = h /\ ~claim.reserved
  /\ physical + claim.pages > MaxPages
  /\ lock' = None /\ claim' = None
  /\ Fails(h)
  /\ UNCHANGED <<logical, physical, guestPages, reserved, answers>>

\* Mutant: the size read first is the one that is published.
ExchangeBlind(h) ==
  LET start == claim.current IN
    /\ lock = h /\ claim.reserved
    /\ logical' = start + claim.pages /\ lock' = None /\ claim' = None
    /\ Written(h, Append(free, [ptr |-> start * PageBytes, capacity |-> claim.pages * PageBytes]))
    /\ UNCHANGED <<physical, guestPages, reserved, answers>>

\* A size that has moved is taken over and tried again.
Exchange(h) ==
  /\ lock = h /\ claim.reserved
  /\ IF logical # claim.current
       THEN /\ claim' = [claim EXCEPT !.current = logical]
            /\ UNCHANGED <<free, allocations, lock, logical, host>>
       ELSE /\ logical' = logical + claim.pages /\ lock' = None /\ claim' = None
            /\ Written(h, Append(free, [ptr |-> logical * PageBytes,
                                        capacity |-> claim.pages * PageBytes]))
  /\ UNCHANGED <<physical, guestPages, reserved, answers>>

(* --- the server -------------------------------------------------------------- *)

\* host_free_memory(), first for one result and then for the other.
HostFreeMemory(h, end) ==
  /\ host[h].at = "held" /\ lock = None /\ host[h][end] # Empty
  /\ Released(host[h][end].ptr, host[h][end].len)
  /\ host' = [host EXCEPT ![h][end] = Empty]
  /\ UNCHANGED <<lock, claim, logical, physical, guestPages, reserved, answers>>

\* A null pointer is not given back.
Taken(h) ==
  /\ host[h].at = "held" /\ host[h].out = Empty /\ host[h].err = Empty
  /\ host' = [host EXCEPT ![h].at = "idle"]
  /\ UNCHANGED <<free, allocations, lock, claim, logical, physical, guestPages, reserved, answers>>

\* The server's own memory.grow, by the page.
GuestGrows ==
  /\ physical < MaxPages
  /\ physical' = physical + 1 /\ logical' = logical + 1
  /\ guestPages' = guestPages \cup {logical}
  /\ UNCHANGED <<free, allocations, lock, claim, reserved, host, answers>>

\* MemoryReserveManager::ensure_once(): pages that are not yet published.
EnsureOnce ==
  /\ ~reserved /\ physical < MaxPages
  /\ reserved' = TRUE /\ physical' = physical + 1
  /\ UNCHANGED <<free, allocations, lock, claim, logical, guestPages, host, answers>>

Next ==
  \/ \E h \in Hosts :
       \/ Answers(h) \/ Nothing(h) \/ Allocate(h) \/ ReadSize(h) \/ Reserve(h)
       \/ ReserveFails(h) \/ Exchange(h) \/ Taken(h)
       \/ \E end \in {"out", "err"} : HostFreeMemory(h, end)
  \/ GuestGrows \/ EnsureOnce

Spec == Init /\ [][Next]_memoryVars

(* --- properties ---------------------------------------------------------------- *)

AllocatedRegions == {[ptr |-> p, capacity |-> allocations[p].capacity] : p \in DOMAIN allocations}
Results(h) == {host[h].out, host[h].err} \ {Empty}

TypeOK ==
  /\ free \in Seq(Regions)
  /\ \A p \in DOMAIN allocations : allocations[p].requested \in Sizes
  /\ lock \in Hosts \cup {None} /\ (claim = None <=> lock = None)
  /\ logical \in 1..MaxPages /\ physical \in 1..MaxPages
  /\ guestPages \subseteq 0..(MaxPages - 1) /\ reserved \in BOOLEAN
  /\ \A h \in Hosts : host[h].at \in {"idle", "stdout", "stderr", "held"}
  /\ answers \in 0..MaxAnswers

\* Every published byte is the server's, free, or part of exactly one result:
\* the allocator loses no memory, hands none out twice, and never hands out
\* what the server grew meanwhile.
MemoryPartitioned ==
  LET regions == AllocatedRegions \cup Range(free)
      guest == {b \in 0..(MaxPages * PageBytes - 1) : b \div PageBytes \in guestPages} IN
    /\ \A r, q \in regions : r # q => Bytes(r) \cap Bytes(q) = {}
    /\ Cardinality(regions) = Cardinality(DOMAIN allocations) + Len(free)
    /\ UNION {Bytes(r) : r \in regions} = 0..(logical * PageBytes - 1) \ guest

\* What the logical size promises has been reserved, at every moment.
PublishedIsBacked == logical <= physical

\* Nothing is allocated that no call still holds: an answer that fails half
\* way gives the first half back.
NothingLeaks == DOMAIN allocations = {r.ptr : r \in UNION {Results(h) : h \in Hosts}}
=============================================================================
