--------------------------- MODULE MCDmaAllocator ---------------------------
(***************************************************************************)
(* Instances of DmaAllocator: the header layout at a quarter of its real    *)
(* size (32 bytes aligned to 8), and pages of two headers.                  *)
(***************************************************************************)
EXTENDS DmaAllocator

(* Three contiguous pages.                                                 *)
OnePool == <<[base |-> 32, size |-> 48, page |-> 16, cached |-> TRUE]>>

(* Contiguous memory added in two calls, the second less than its page, and *)
(* a third call that is refused.                                           *)
TwoPools ==
    <<[base |-> 32, size |-> 16, page |-> 16, cached |-> TRUE],
      [base |-> 48, size |-> 12, page |-> 16, cached |-> TRUE],
      [base |-> 88, size |-> 16, page |-> 16, cached |-> TRUE]>>

RequestsOf(sizes, aligns, cachings) ==
    {[asked |-> s, align |-> a, cached |-> c] :
        s \in sizes, a \in aligns, c \in cachings}

SmallRequests == RequestsOf({5, 11, 16}, {0, 8}, {TRUE})

=============================================================================
