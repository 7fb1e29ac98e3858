--------------------------- MODULE SignatureCache ---------------------------
(* The cache in which the C backend keeps how many explicit arguments the    *)
(* types of a selector have (dispatch/dispatch-c.c), by the selector's slot. *)
EXTENDS Dispatch, Bitwise

CONSTANTS
  Arguments,    \* [SelName -> Nat]: explicit arguments in the types of a selector
  SigSize       \* SF_C_SIG_CACHE_SIZE

VARIABLE
  sigCache      \* g_sig_cache: [0 .. SigSize-1 -> [slot, argc]]

\* Static storage: every entry is for slot 0, with no arguments.
CacheInit == Init /\ sigCache = [i \in 0 .. SigSize - 1 |-> [slot |-> 0, argc |-> 0]]

\* sig_cache_index; a selector without a slot has the slot UINT32_MAX, of
\* which the same bits cancel out.
SigIndex(slot) == IF slot = Nil THEN 0 ELSE (slot ^^ (slot \div 32)) % SigSize
SigHit(n) == sigCache[SigIndex(SlotOf(n))].slot = SlotOf(n)
CachedArguments(n) ==
  IF SigHit(n) THEN sigCache[SigIndex(SlotOf(n))].argc ELSE Arguments[n]

\* collect_explicit_arg_codes_cached, called when objc_msgSend sends n
Send(n) ==
  /\ loaded # {}
  /\ sigCache' = [sigCache EXCEPT
       ![SigIndex(SlotOf(n))] = [slot |-> SlotOf(n), argc |-> CachedArguments(n)]]
  /\ UNCHANGED vars

CacheNext == (Next /\ UNCHANGED sigCache) \/ \E n \in SelName : Send(n)
CacheSpec == CacheInit /\ [][CacheNext]_<<vars, sigCache>>
-----------------------------------------------------------------------------
\* What the cache answers is the number of the selector's arguments.
SignaturesFresh == \A n \in SelName : SigHit(n) => CachedArguments(n) = Arguments[n]
=============================================================================
