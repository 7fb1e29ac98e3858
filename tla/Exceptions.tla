----------------------------- MODULE Exceptions -----------------------------
(***************************************************************************)
(* Throwing, catching and rethrowing (exceptions.c), in one thread. An     *)
(* exception is a block that carries a retained object through the stack;  *)
(* handlers nest, an exception is caught again after it was rethrown, and  *)
(* each cleanup run during unwinding may throw and catch others. The block *)
(* is freed by the end of its last handler, unless it is leaving it.       *)
(***************************************************************************)
EXTENDS Naturals, Sequences, FiniteSets

CONSTANTS
  Obj,         \* objects thrown; an address is used again once it is free
  Exc,         \* the SFException blocks calloc returns
  Nil,
  CatchLimit,  \* entries of g_catch_stack
  MaxScopes,   \* bound: @try, @catch and cleanups the program is inside of
  MaxHeld      \* bound: references to one object the program holds

ASSUME ExceptionsAssumption ==
  /\ IsFiniteSet(Exc) /\ Nil \notin Obj \cup Exc
  /\ CatchLimit \in Nat \ {0} /\ MaxScopes \in Nat /\ MaxHeld \in Nat \ {0}

\* Handlers nest no deeper than g_catch_stack: the code drops the next entry.
ASSUME NestingAssumption == MaxScopes <= CatchLimit

VARIABLES
  scopes,      \* what the program is inside of, outermost first
  flight,      \* the exception that unwinds the stack, or Nil
  object,      \* exc->object; Nil while the block is free
  depth,       \* exc->catch_depth
  leaving,     \* exc->reserved: rethrown by its handler
  active,      \* g_exception_active, head first
  catchStack,  \* g_catch_stack[0 .. g_catch_stack_size-1]
  current,     \* g_gnu_current_exception
  refs,        \* reference counts of the objects, 0 when there is none
  held,        \* references among them that the program holds
  metadata,    \* objects with an entry in g_exception_metadata
  flagged      \* objects with SF_OBJ_AUX_FLAG_HAS_EXCEPTION_METADATA

blocks == <<object, depth, leaving, active, catchStack, current>>
objects == <<refs, held, metadata, flagged>>
vars == <<scopes, flight, blocks, objects>>

\* A @try block, the body of a @catch with the exception it handles, or a
\* cleanup that interrupts the unwinding of an exception.
Scope == [kind : {"try", "handler", "cleanup"}, exc : Exc \cup {Nil}]

TypeOK ==
  /\ scopes \in Seq(Scope) /\ flight \in Exc \cup {Nil}
  /\ object \in [Exc -> Obj \cup {Nil}]
  /\ depth \in [Exc -> Nat] /\ leaving \in [Exc -> BOOLEAN]
  /\ active \in Seq(Exc)
  /\ catchStack \in Seq(Exc) /\ Len(catchStack) <= CatchLimit
  /\ current \in Exc \cup {Nil}
  /\ refs \in [Obj -> Nat] /\ held \in [Obj -> Nat]
  /\ metadata \subseteq Obj /\ flagged \subseteq Obj

Init ==
  /\ scopes = <<>> /\ flight = Nil
  /\ object = [e \in Exc |-> Nil]
  /\ depth = [e \in Exc |-> 0] /\ leaving = [e \in Exc |-> FALSE]
  /\ active = <<>> /\ catchStack = <<>> /\ current = Nil
  /\ refs = [o \in Obj |-> 0] /\ held = [o \in Obj |-> 0]
  /\ metadata = {} /\ flagged = {}

Top(s) == s[Len(s)]
Pop(s) == SubSeq(s, 1, Len(s) - 1)
Allocated == {e \in Exc : object[e] # Nil}
-----------------------------------------------------------------------------
(* The program *)

Running == flight = Nil
Inside(kind) == scopes # <<>> /\ Top(scopes).kind = kind

\* Phase one of the unwinder: a @try encloses position n, and no cleanup is in
\* between. Without one the program aborts.
Caught(n) ==
  \E i \in 1 .. n : /\ scopes[i].kind = "try"
                    /\ \A j \in i .. n : scopes[j].kind # "cleanup"

Create(o) ==
  /\ Running /\ refs[o] = 0
  /\ refs' = [refs EXCEPT ![o] = 1] /\ held' = [held EXCEPT ![o] = 1]
  /\ UNCHANGED <<scopes, flight, blocks, metadata, flagged>>

\* A handler may retain the object it was given.
Retain(o) ==
  /\ Running /\ held[o] < MaxHeld
  /\ held[o] > 0 \/ \E i \in DOMAIN scopes :
                      scopes[i].kind = "handler" /\ object[scopes[i].exc] = o
  /\ refs' = [refs EXCEPT ![o] = @ + 1] /\ held' = [held EXCEPT ![o] = @ + 1]
  /\ UNCHANGED <<scopes, flight, blocks, metadata, flagged>>

\* objc_release, with what sf_object_dispose does about the metadata when the
\* reference is the last one
Releasing(o) ==
  LET disposed == refs[o] = 1 /\ o \in flagged IN
  /\ refs' = [refs EXCEPT ![o] = IF @ > 0 THEN @ - 1 ELSE 0]
  /\ metadata' = IF disposed THEN metadata \ {o} ELSE metadata
  /\ flagged' = IF disposed THEN flagged \ {o} ELSE flagged

Release(o) ==
  /\ Running /\ held[o] > 0
  /\ Releasing(o)
  /\ held' = [held EXCEPT ![o] = @ - 1]
  /\ UNCHANGED <<scopes, flight, blocks>>

EnterTry ==
  /\ Running /\ Len(scopes) < MaxScopes
  /\ scopes' = Append(scopes, [kind |-> "try", exc |-> Nil])
  /\ UNCHANGED <<flight, blocks, objects>>

LeaveTry ==
  /\ Running /\ Inside("try")
  /\ scopes' = Pop(scopes)
  /\ UNCHANGED <<flight, blocks, objects>>
-----------------------------------------------------------------------------
(* exceptions.c *)

\* sf_exception_from_object: the first active exception that carries o
FromObject(o) ==
  LET carriers == {i \in DOMAIN active : object[active[i]] = o} IN
  IF carriers = {} THEN Nil
  ELSE active[CHOOSE i \in carriers : \A j \in carriers : i <= j]

\* A throw of the object being handled rethrows its exception.
IsRethrow(o) ==
  /\ current # Nil /\ FromObject(o) = current
  /\ object[current] = o /\ depth[current] > 0

CaptureUnflagged(o) == metadata' = metadata \cup {o} /\ UNCHANGED flagged
\* sf_exception_capture_metadata; a new entry may fail to be allocated.
CaptureMetadata(o) ==
  /\ metadata' \in {metadata, metadata \cup {o}}
  /\ flagged' = flagged \cup {o}

\* objc_exception_throw. The object of an exception that is being unwound for
\* the second time is not thrown by a cleanup.
Throw(o) ==
  /\ Running /\ Caught(Len(scopes))
  /\ held[o] > 0 \/ (Inside("handler") /\ object[Top(scopes).exc] = o)
  /\ \A i \in DOMAIN scopes : scopes[i].kind = "cleanup" =>
       ~(object[scopes[i].exc] = o /\ leaving[scopes[i].exc])
  /\ IF IsRethrow(o)
     THEN /\ leaving' = [leaving EXCEPT ![current] = TRUE]
          /\ flight' = current
          /\ UNCHANGED <<object, depth, active, objects>>
     ELSE \E e \in Exc \ Allocated :
            /\ object' = [object EXCEPT ![e] = o]
            /\ depth' = [depth EXCEPT ![e] = 0]
            /\ leaving' = [leaving EXCEPT ![e] = FALSE]
            /\ active' = <<e>> \o active
            /\ flight' = e
            /\ refs' = [refs EXCEPT ![o] = @ + 1]
            /\ CaptureMetadata(o)
            /\ UNCHANGED held
  /\ UNCHANGED <<scopes, catchStack, current>>

\* objc_exception_rethrow, called in a handler with its exception or NULL
Rethrow(given) ==
  LET e == IF given # Nil THEN given
           ELSE IF catchStack # <<>> THEN Top(catchStack) ELSE current IN
  /\ Running /\ Inside("handler") /\ Caught(Len(scopes)) /\ e # Nil
  /\ given \in {Nil, Top(scopes).exc}
  /\ leaving' = [leaving EXCEPT ![e] = TRUE]
  /\ flight' = e
  /\ UNCHANGED <<scopes, object, depth, active, catchStack, current, objects>>

\* objc_begin_catch, where the unwinding ends
BeginCatch ==
  /\ flight # Nil /\ Inside("try")
  /\ depth' = [depth EXCEPT ![flight] = @ + 1]
  /\ leaving' = [leaving EXCEPT ![flight] = FALSE]
  /\ current' = flight
  /\ catchStack' = IF Len(catchStack) < CatchLimit THEN Append(catchStack, flight)
                   ELSE catchStack
  /\ scopes' = [scopes EXCEPT ![Len(scopes)] = [kind |-> "handler", exc |-> flight]]
  /\ flight' = Nil
  /\ UNCHANGED <<object, active, objects>>

\* sf_exception_unregister_active: the entry of e is unlinked.
Unregister(e) ==
  \/ \E i \in DOMAIN active :
       /\ active[i] = e /\ \A j \in 1 .. i - 1 : active[j] # e
       /\ active' = SubSeq(active, 1, i - 1) \o SubSeq(active, i + 1, Len(active))
  \/ (\A i \in DOMAIN active : active[i] # e) /\ UNCHANGED active

DeleteKeepingObject(e) ==
  /\ object' = [object EXCEPT ![e] = Nil]
  /\ Unregister(e)
  /\ UNCHANGED objects

\* sf_exception_cleanup, called through _Unwind_DeleteException. The dealloc the
\* release may run is code like that of a cleanup.
Delete(e) ==
  /\ object' = [object EXCEPT ![e] = Nil]
  /\ Unregister(e)
  /\ Releasing(object[e])
  /\ UNCHANGED held

\* What g_gnu_current_exception becomes when e is taken off the catch stack.
CurrentUnchanged(e, rest) == current
CurrentAfter(e, rest) ==
  IF rest = <<>> THEN Nil ELSE IF Top(rest) # e THEN Top(rest) ELSE current

IsLastUnlessNested(e) == depth[e] <= 1
\* The last handler of e ends, and e does not leave it.
IsLast(e) == depth[e] <= 1 /\ ~leaving[e]

\* objc_end_catch, after the body of a handler or when an exception leaves it
EndCatch ==
  LET e == Top(catchStack)
      rest == Pop(catchStack)
      now == CurrentAfter(e, rest) IN
  IF catchStack = <<>> THEN UNCHANGED <<blocks, objects>>
  ELSE /\ catchStack' = rest
       /\ depth' = [depth EXCEPT ![e] = IF @ > 0 THEN @ - 1 ELSE 0]
       /\ leaving' = [leaving EXCEPT ![e] = @ /\ depth[e] > 1]
       /\ IF IsLast(e)
          THEN Delete(e) /\ current' = IF now = e THEN Nil ELSE now
          ELSE UNCHANGED <<object, active, objects>> /\ current' = now

HandlerReturns ==
  /\ Running /\ Inside("handler")
  /\ EndCatch
  /\ scopes' = Pop(scopes)
  /\ UNCHANGED flight

UnwindHandler ==
  /\ flight # Nil /\ Inside("handler")
  /\ EndCatch
  /\ scopes' = Pop(scopes)
  /\ UNCHANGED flight

\* The class of the object matches no @catch of this @try.
UnwindTry ==
  /\ flight # Nil /\ Inside("try") /\ Caught(Len(scopes) - 1)
  /\ scopes' = Pop(scopes)
  /\ UNCHANGED <<flight, blocks, objects>>

\* A landing pad of a frame in between: the program's code runs.
EnterCleanup ==
  /\ flight # Nil /\ Len(scopes) < MaxScopes
  /\ scopes' = Append(scopes, [kind |-> "cleanup", exc |-> flight])
  /\ flight' = Nil
  /\ UNCHANGED <<blocks, objects>>

LeaveCleanup ==
  /\ Running /\ Inside("cleanup")
  /\ scopes' = Pop(scopes)
  /\ flight' = Top(scopes).exc
  /\ UNCHANGED <<blocks, objects>>

Next ==
  \/ \E o \in Obj : Create(o) \/ Retain(o) \/ Release(o) \/ Throw(o)
  \/ \E e \in Exc \cup {Nil} : Rethrow(e)
  \/ EnterTry \/ LeaveTry \/ BeginCatch \/ HandlerReturns
  \/ UnwindHandler \/ UnwindTry \/ EnterCleanup \/ LeaveCleanup

Spec == Init /\ [][Next]_vars
-----------------------------------------------------------------------------
Carried == ({flight} \cup {scopes[i].exc : i \in DOMAIN scopes}) \ {Nil}

\* The exceptions are neither lost nor used after they are freed: the ones that
\* are handled, or on their way to a handler, are the ones that exist and that
\* a throw looks up, each listed once (objc_end_catch, sf_exception_cleanup).
ExceptionsKept ==
  /\ Allocated = Carried
  /\ {active[i] : i \in DOMAIN active} = Allocated
  /\ \A i, j \in DOMAIN active : active[i] = active[j] => i = j

\* How many handlers are among the first n scopes of s
Nesting(s, n) == Cardinality({i \in 1 .. n : s[i].kind = "handler"})

\* c lists the exceptions of the handlers in s, outermost first.
Matches(s, c) ==
  /\ Len(c) = Nesting(s, Len(s))
  /\ \A i \in DOMAIN s :
       s[i].kind = "handler" =>
         Nesting(s, i) \in DOMAIN c /\ c[Nesting(s, i)] = s[i].exc
  /\ \A k \in DOMAIN c :
       \E i \in DOMAIN s : s[i].kind = "handler" /\ Nesting(s, i) = k

\* objc_end_catch acts on the exception of the handler that ends, and a throw
\* compares with the innermost handler's.
CatchStackMatches ==
  /\ Matches(scopes, catchStack)
  /\ current = IF catchStack = <<>> THEN Nil ELSE Top(catchStack)

\* Every exception holds one reference to its object until it is freed.
ObjectsRetained ==
  \A o \in Obj : refs[o] = held[o] + Cardinality({e \in Exc : object[e] = o})

\* A backtrace found under an address is that of the object there.
MetadataFresh == \A o \in metadata : refs[o] > 0
=============================================================================
