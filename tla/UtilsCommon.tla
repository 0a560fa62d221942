---------------------------- MODULE UtilsCommon ----------------------------
(***************************************************************************)
(* pg_cpp_utils_utils_common: the set-returning-function driver behind     *)
(* every SQL function of the extension, with the Utility and Records       *)
(* objects it owns.  One backend process runs several call sites, one      *)
(* at a time: a site is inside the C++ code for one stretch of steps, and  *)
(* between two of its C calls (first row, end of set) the executor may     *)
(* run the other sites, drop this one, or abort the query.                 *)
(*                                                                         *)
(* Memory is modelled by ownership.  "heap" is the C++ heap, which outlives*)
(* the query; what the code pallocs lives in a memory context and dies     *)
(* with it, so only the context it is allocated in is recorded.            *)
(***************************************************************************)
EXTENDS Naturals, Sequences

CONSTANTS
  Calls,     \* call sites: one FmgrInfo (hence one fn_extra) each
  Function,  \* the SQL function each site calls
  Executor   \* the executor, and the memory context it calls us in

IcuFunctions == {"number_spellout", "currency_spellout", "format_number", "format_message"}
SqlFunctions == IcuFunctions \cup {"invoice_hash", "public_link", "version"}

ASSUME CallsAssumption ==
  /\ Executor \notin Calls
  /\ Function \in [Calls -> SqlFunctions]

VARIABLES
  pc,         \* where each site is, inside the code or between two C calls
  fn_extra,   \* TRUE once SRF_FIRSTCALL_INIT installed a FuncCallContext
  call_cntr,  \* FuncCallContext.call_cntr
  max_calls,  \* FuncCallContext.max_calls
  user_fctx,  \* FuncCallContext.user_fctx points to a Records object
  attinmeta,  \* the memory context FuncCallContext.attinmeta is allocated in
  items,      \* Records::items_, "live" or "nullptr" per position
  thrown,     \* the exception being handled: "none", "pg" or "other"
  rows,       \* rows handed to the executor since the last end of set
  context,    \* CurrentMemoryContext: the executor's or a multi-call one
  heap,       \* live C++ objects made on behalf of each site
  icu         \* ICU is initialised (u_init done, u_cleanup not)

fcinfoVars == <<fn_extra, call_cntr, max_calls, user_fctx, attinmeta, items>>
vars == <<pc, fcinfoVars, thrown, rows, context, heap, icu>>

UsesIcu(c) == Function[c] \in IcuFunctions

Inside == {"entered", "alloc", "perform", "records", "fill",
           "delete", "cleanup", "catch", "percall"}
Outside == {"fresh", "open", "done", "failed", "aborted", "abandoned"}
Points == Inside \cup Outside

\* No site is inside the code: the executor is in control.
Idle == \A c \in Calls : pc[c] \notin Inside

(* What a_alloc_utility_func can end in: u_init failing and the            *)
(* NumberFormatter constructor throw pg::cpp::utils::Exception, operator   *)
(* new throws std::bad_alloc.                                              *)
AllocOutcomes(f) == {"ok", "other"} \cup (IF f \in IcuFunctions THEN {"pg"} ELSE {})

(* What a_perform_func can end in; "error" is a normal return with a       *)
(* non-empty LastError().  The two Calculate throw the library's exception,*)
(* and others: PublicLink lets them through, and making one may throw.     *)
PerformOutcomes(f) ==
  {"ok"} \cup (IF f \in IcuFunctions                      THEN {"error", "other"} ELSE {})
         \cup (IF f \in {"invoice_hash", "public_link"} THEN {"pg", "other"}    ELSE {})

\* What ~Records() deletes: itself and every item that is not nullptr.
Owned(c) ==
  IF user_fctx[c]
  THEN {"records"} \cup {"record" : i \in {j \in DOMAIN items[c] : items[c][j] = "live"}}
  ELSE {}

-----------------------------------------------------------------------------
Init ==
  /\ pc        = [c \in Calls |-> "fresh"]
  /\ fn_extra  = [c \in Calls |-> FALSE]
  /\ call_cntr = [c \in Calls |-> 0]
  /\ max_calls = [c \in Calls |-> 0]
  /\ user_fctx = [c \in Calls |-> FALSE]
  /\ attinmeta = [c \in Calls |-> Executor]
  /\ items     = [c \in Calls |-> <<>>]
  /\ thrown    = [c \in Calls |-> "none"]
  /\ rows      = [c \in Calls |-> 0]
  /\ context   = Executor
  /\ heap      = [c \in Calls |-> {}]
  /\ icu       = FALSE

(***************************************************************************)
(* The executor.  It enters a site afresh (the first time, or a rescan     *)
(* after the end of the set), enters it again after a row, or drops it:    *)
(* shutdown_MultiFuncCall deletes the multi-call context and with it the   *)
(* only pointer to the site's Records.  The entry wrapper builds its       *)
(* argument strings before it calls the driver.                            *)
(***************************************************************************)
EnterFrom(c, from) ==
  /\ Idle
  /\ pc[c] \in from
  /\ pc' = [pc EXCEPT ![c] = "entered"]
  /\ heap' = [heap EXCEPT ![c] = @ \cup {"arguments"}]
  /\ UNCHANGED <<fcinfoVars, thrown, rows, context, icu>>

Begin(c)  == EnterFrom(c, {"fresh", "done"})
Resume(c) == EnterFrom(c, {"open"})

Abandon(c) ==
  /\ Idle
  /\ pc[c] = "open"
  /\ pc' = [pc EXCEPT ![c] = "abandoned"]
  /\ UNCHANGED <<fcinfoVars, thrown, rows, context, heap, icu>>

(* ereport(ERROR) leaves site c by longjmp: no destructor runs, error      *)
(* recovery puts the executor's memory context back, and the sites "dead"  *)
(* of the aborted query go with their contexts.  A site of an outer query  *)
(* survives when the error is caught by a subtransaction.                  *)
Raise(c, how) ==
  /\ \E dead \in SUBSET {d \in Calls : pc[d] = "open"} :
       pc' = [d \in Calls |-> IF d = c THEN how
                              ELSE IF d \in dead THEN "aborted" ELSE pc[d]]
  /\ context' = Executor

-----------------------------------------------------------------------------
(* Fault: the attribute metadata is built before the context is switched.  *)
FirstCallInitTooEarly(c) ==
  /\ pc[c] = "entered"
  /\ ~fn_extra[c]
  /\ attinmeta' = [attinmeta EXCEPT ![c] = context]
  /\ context'   = c
  /\ fn_extra'  = [fn_extra  EXCEPT ![c] = TRUE]
  /\ call_cntr' = [call_cntr EXCEPT ![c] = 0]
  /\ pc'        = [pc        EXCEPT ![c] = "alloc"]
  /\ UNCHANGED <<max_calls, user_fctx, thrown, items, rows, heap, icu>>

(* First call: function context, result type, attribute metadata.          *)
FirstCallInit(c) ==
  /\ pc[c] = "entered"
  /\ ~fn_extra[c]
  /\ context'   = c
  /\ fn_extra'  = [fn_extra  EXCEPT ![c] = TRUE]
  /\ call_cntr' = [call_cntr EXCEPT ![c] = 0]
  /\ max_calls' = [max_calls EXCEPT ![c] = 0]
  /\ user_fctx' = [user_fctx EXCEPT ![c] = FALSE]
  /\ attinmeta' = [attinmeta EXCEPT ![c] = context']
  /\ thrown'    = [thrown    EXCEPT ![c] = "none"]
  /\ pc'        = [pc        EXCEPT ![c] = "alloc"]
  /\ UNCHANGED <<items, rows, heap, icu>>

(* Called where no set is accepted, or for a type that is not composite.   *)
FirstCallRejected(c) ==
  /\ pc[c] = "entered"
  /\ ~fn_extra[c]
  /\ Raise(c, "failed")
  /\ UNCHANGED <<fcinfoVars, thrown, rows, heap, icu>>

(* A throw inside the try block; both handlers start by deleting the       *)
(* utility.  "leftover" is what the throwing statement had already made.   *)
Throw(c, kind, leftover) ==
  /\ thrown' = [thrown EXCEPT ![c] = kind]
  /\ heap'   = [heap EXCEPT ![c] = @ \cup {"exception"} \cup leftover]
  /\ pc'     = [pc EXCEPT ![c] = "delete"]

Alloc(c) ==
  /\ pc[c] = "alloc"
  /\ \E result \in AllocOutcomes(Function[c]) :
       /\ IF UsesIcu(c) THEN icu' \in (IF result = "pg" THEN BOOLEAN ELSE {TRUE})
                        ELSE icu' = icu
       /\ IF result = "ok"
          THEN /\ heap' = [heap EXCEPT ![c] = @ \cup {"utility"}]
               /\ pc' = [pc EXCEPT ![c] = "perform"]
               /\ UNCHANGED thrown
          ELSE Throw(c, result, {})
  /\ UNCHANGED <<fcinfoVars, rows, context>>

Perform(c) ==
  /\ pc[c] = "perform"
  /\ \E result \in PerformOutcomes(Function[c]) :
       IF result = "ok"
       THEN /\ pc' = [pc EXCEPT ![c] = "records"]
            /\ UNCHANGED <<thrown, heap>>
       ELSE Throw(c, IF result = "other" THEN "other" ELSE "pg", {})
  /\ UNCHANGED <<fcinfoVars, rows, context, icu>>

AllocUserFuncContext(c) ==
  /\ pc[c] = "records"
  /\ \/ /\ user_fctx' = [user_fctx EXCEPT ![c] = TRUE]
        /\ max_calls' = [max_calls EXCEPT ![c] = 0]
        /\ items'     = [items     EXCEPT ![c] = <<>>]
        /\ heap'      = [heap EXCEPT ![c] = @ \cup {"records"}]
        /\ pc'        = [pc EXCEPT ![c] = "fill"]
        /\ UNCHANGED thrown
     \/ /\ Throw(c, "other", {})
        /\ UNCHANGED <<user_fctx, max_calls, items>>
  /\ UNCHANGED <<fn_extra, call_cntr, attinmeta, rows, context, icu>>

(* FillOutputAtUserFuncContext: every utility appends one record.  When    *)
(* push_back throws, the record just made belongs to nobody.               *)
FillOutput(c) ==
  /\ pc[c] = "fill"
  /\ \/ /\ items'     = [items     EXCEPT ![c] = Append(@, "live")]
        /\ max_calls' = [max_calls EXCEPT ![c] = @ + 1]
        /\ heap'      = [heap EXCEPT ![c] = @ \cup {"record"}]
        /\ pc'        = [pc EXCEPT ![c] = "delete"]
        /\ UNCHANGED thrown
     \/ /\ \E leftover \in SUBSET {"stray record"} : Throw(c, "other", leftover)
        /\ UNCHANGED <<items, max_calls>>
  /\ UNCHANGED <<fn_extra, call_cntr, user_fctx, attinmeta, rows, context, icu>>

(* a_dealloc_utility_func: delete the utility (nullptr when its allocation *)
(* threw), then u_cleanup where ICU is used.  Called after FillOutput and  *)
(* first thing in both handlers; only the former then restores the context.*)
DeleteUtility(c) ==
  /\ pc[c] = "delete"
  /\ heap' = [heap EXCEPT ![c] = @ \ {"utility"}]
  /\ pc'   = [pc EXCEPT ![c] = "cleanup"]
  /\ UNCHANGED <<fcinfoVars, thrown, rows, context, icu>>

LeaveFirstCall(c, next) ==
  /\ pc[c] = "cleanup"
  /\ pc' = [pc EXCEPT ![c] = next]
  /\ context' = IF thrown[c] = "none" THEN Executor ELSE context
  /\ UNCHANGED <<fcinfoVars, thrown, rows, heap>>

\* Faults: u_cleanup is left to the normal path; the memory context is never
\* switched back; the driver tries again after an exception.
CleanupIcuUnlessThrown(c) ==
  /\ LeaveFirstCall(c, IF thrown[c] = "none" THEN "percall" ELSE "catch")
  /\ icu' = (icu /\ ~(UsesIcu(c) /\ thrown[c] = "none"))
CleanupIcuInOwnContext(c) ==
  /\ pc[c] = "cleanup"
  /\ pc' = [pc EXCEPT ![c] = IF thrown[c] = "none" THEN "percall" ELSE "catch"]
  /\ icu' = (icu /\ ~UsesIcu(c))
  /\ UNCHANGED <<fcinfoVars, thrown, rows, heap, context>>
CleanupIcuAndRetry(c) ==
  /\ LeaveFirstCall(c, IF thrown[c] = "none" THEN "percall" ELSE "alloc")
  /\ icu' = (icu /\ ~UsesIcu(c))

CleanupIcu(c) ==
  /\ LeaveFirstCall(c, IF thrown[c] = "none" THEN "percall" ELSE "catch")
  /\ icu' = (icu /\ ~UsesIcu(c))

DeallocUserFuncContext(c) ==
  /\ user_fctx' = [user_fctx EXCEPT ![c] = FALSE]
  /\ max_calls' = [max_calls EXCEPT ![c] = IF user_fctx[c] THEN 0 ELSE @]
  /\ items'     = [items     EXCEPT ![c] = IF user_fctx[c] THEN <<>> ELSE @]

\* Faults: the handler leaves the Records; it falls through to the rows.
ReportErrorKeepingRecords(c) ==
  /\ pc[c] = "catch"
  /\ Raise(c, "failed")
  /\ UNCHANGED <<fcinfoVars, thrown, rows, heap, icu>>
ReportErrorAndGoOn(c) ==
  /\ pc[c] = "catch"
  /\ DeallocUserFuncContext(c)
  /\ heap' = [heap EXCEPT ![c] = @ \ Owned(c)]
  /\ pc' = [pc EXCEPT ![c] = "percall"]
  /\ context' = Executor
  /\ UNCHANGED <<fn_extra, call_cntr, attinmeta, thrown, rows, icu>>

(* The rest of either handler: release the Records, report the error.      *)
(* The exception object and the wrapper's strings are jumped over.         *)
ReportError(c) ==
  /\ pc[c] = "catch"
  /\ DeallocUserFuncContext(c)
  /\ heap' = [heap EXCEPT ![c] = @ \ Owned(c)]
  /\ Raise(c, "failed")
  /\ UNCHANGED <<fn_extra, call_cntr, attinmeta, thrown, rows, icu>>

-----------------------------------------------------------------------------
(* Stuff done on every call.                                               *)
PerCallSetup(c) ==
  /\ pc[c] = "entered"
  /\ fn_extra[c]
  /\ pc' = [pc EXCEPT ![c] = "percall"]
  /\ UNCHANGED <<fcinfoVars, thrown, rows, context, heap, icu>>

(* Copy the record's strings, build the tuple, release the record; past    *)
(* the end of items_ the row is NULL and nothing is released.              *)
GiveRow(c) ==
  /\ pc[c] = "percall"
  /\ LET index == call_cntr[c] + 1 IN
       IF index > Len(items[c])
       THEN /\ heap' = [heap EXCEPT ![c] = @ \ {"arguments"}]
            /\ UNCHANGED items
       ELSE /\ heap' = [heap EXCEPT ![c] = @ \ {"arguments", "record"}]
            /\ items' = [items EXCEPT ![c][index] = "nullptr"]
  /\ rows' = [rows EXCEPT ![c] = @ + 1]
  /\ pc' = [pc EXCEPT ![c] = "open"]
  /\ UNCHANGED <<fn_extra, max_calls, user_fctx, attinmeta, thrown, context, icu>>

\* Fault: the row is not counted.
NextRowNotCounted(c) ==
  /\ call_cntr[c] < max_calls[c]
  /\ GiveRow(c)
  /\ UNCHANGED call_cntr

\* One more row.
NextRow(c) ==
  /\ call_cntr[c] < max_calls[c]
  /\ GiveRow(c)
  /\ call_cntr' = [call_cntr EXCEPT ![c] = @ + 1]

(* palloc or BuildTupleFromCStrings raises an error of its own.            *)
RowError(c) ==
  /\ pc[c] = "percall"
  /\ call_cntr[c] < max_calls[c]
  /\ Raise(c, "aborted")
  /\ UNCHANGED <<fcinfoVars, thrown, rows, heap, icu>>

\* Fault: the end of the set is not reported as such.
LastCallNotDone(c) ==
  /\ pc[c] = "percall"
  /\ call_cntr[c] >= max_calls[c]
  /\ DeallocUserFuncContext(c)
  /\ heap' = [heap EXCEPT ![c] = @ \ (Owned(c) \cup {"arguments"})]
  /\ pc' = [pc EXCEPT ![c] = "open"]
  /\ UNCHANGED <<fn_extra, call_cntr, attinmeta, thrown, rows, context, icu>>

LastCall(c) ==
  /\ pc[c] = "percall"
  /\ call_cntr[c] >= max_calls[c]
  /\ DeallocUserFuncContext(c)
  /\ heap' = [heap EXCEPT ![c] = @ \ (Owned(c) \cup {"arguments"})]
  /\ fn_extra' = [fn_extra EXCEPT ![c] = FALSE]
  /\ rows' = [rows EXCEPT ![c] = 0]
  /\ pc' = [pc EXCEPT ![c] = "done"]
  /\ UNCHANGED <<call_cntr, attinmeta, thrown, context, icu>>

-----------------------------------------------------------------------------
\* The steps of the code itself, which always go on once it was entered.
Step(c) ==
  \/ FirstCallInit(c) \/ FirstCallRejected(c)
  \/ Alloc(c) \/ Perform(c) \/ AllocUserFuncContext(c) \/ FillOutput(c)
  \/ DeleteUtility(c) \/ CleanupIcu(c) \/ ReportError(c)
  \/ PerCallSetup(c) \/ NextRow(c) \/ RowError(c) \/ LastCall(c)

Next == \E c \in Calls : Begin(c) \/ Resume(c) \/ Abandon(c) \/ Step(c)

Spec == Init /\ [][Next]_vars

(* Fairness: C++ code that was entered runs on, and a query does not stay  *)
(* half read for ever: the executor asks for the next row or shuts the     *)
(* expression context down.  It may first serve other sites (hence SF).    *)
FairSpec ==
  /\ Spec
  /\ \A c \in Calls : WF_vars(Step(c)) /\ SF_vars(Resume(c) \/ Abandon(c))
-----------------------------------------------------------------------------
\* Steps of a first call, between the two MemoryContextSwitchTo calls.
FirstCallSteps == {"alloc", "perform", "records", "fill", "delete", "cleanup", "catch"}

\* Sites with a function context the code will use again.
Started(c) == pc[c] \in {"open", "percall"} \/ (pc[c] = "entered" /\ fn_extra[c])

What == {"arguments", "utility", "records", "record", "stray record", "exception"}

\* Every variable has its type; one record per result, so the two counters
\* of a function context never pass 1.
TypeOK ==
  /\ pc        \in [Calls -> Points]
  /\ fn_extra  \in [Calls -> BOOLEAN]
  /\ call_cntr \in [Calls -> 0..1]
  /\ max_calls \in [Calls -> 0..1]
  /\ user_fctx \in [Calls -> BOOLEAN]
  /\ attinmeta \in [Calls -> Calls \cup {Executor}]
  /\ items     \in [Calls -> {<<>>, <<"live">>, <<"nullptr">>}]
  /\ thrown    \in [Calls -> {"none", "pg", "other"}]
  /\ rows      \in [Calls -> 0..1]
  /\ context   \in Calls \cup {Executor}
  /\ heap      \in [Calls -> SUBSET What]
  /\ icu       \in BOOLEAN

(* The rows a started site still owes are all there: its user_fctx points  *)
(* to live Records and every position from call_cntr up to max_calls holds *)
(* a record not yet released.  GetPStringValues dereferences that item     *)
(* with no check of its own, one C call after it was stored.               *)
OwedRowsAreLive ==
  \A c \in Calls : Started(c) =>
    /\ user_fctx[c]
    /\ "records" \in heap[c]
    /\ \A i \in (call_cntr[c] + 1)..max_calls[c] :
         /\ i \in DOMAIN items[c]
         /\ items[c][i] = "live"
         /\ "record" \in heap[c]

(* ICU brackets the objects built on it: it is initialised as long as any  *)
(* site's ICU utility is alive (u_cleanup by another site included), and   *)
(* no path, exceptional ones included, leaves it initialised on return.    *)
IcuBracketsUtilities ==
  /\ \A c \in Calls : (UsesIcu(c) /\ "utility" \in heap[c]) => icu
  /\ Idle => ~icu

(* What stays on the C++ heap when control is back at the executor: only   *)
(* the Records between two calls; nothing after the end of the set; after  *)
(* an error the driver reported only what longjmp skips and the record a   *)
(* failed push_back lost.  Utility and Records are always released.        *)
HeapIsReleased ==
  \A c \in Calls :
    /\ pc[c] \in {"fresh", "done"} => heap[c] = {}
    /\ pc[c] \in {"open", "abandoned"} => heap[c] = {"records"}
    /\ pc[c] = "failed" => heap[c] \subseteq {"arguments", "exception", "stray record"}

(* The multi-call context is current exactly during a first call: rows are *)
(* built in the executor's context, and no way back to the executor leaves *)
(* the backend in a context that dies with one call site.                  *)
ContextDiscipline ==
  \A c \in Calls : context = c <=> pc[c] \in FirstCallSteps

(* The attribute metadata a later call reads was allocated in the context  *)
(* that lives as long as the site, not in the executor's per-tuple one.    *)
AttInMetaPersists ==
  \A c \in Calls : Started(c) => attinmeta[c] = c

(* The driver implements ResultSet: one row then the end, or an error and  *)
(* no row, per scan, under every interleaving of sites, failures and drops.*)
SetOf(where, n) ==
  CASE where = "done"                         -> "end"
    [] where = "failed"                       -> "error"
    [] where = "abandoned"                    -> "cut"
    [] where = "aborted"                      -> IF n = 0 THEN "error" ELSE "cut"
    [] where \in Inside \cup {"fresh", "open"} -> IF n = 0 THEN "pending" ELSE "row"

Promised == INSTANCE ResultSet WITH set <- [c \in Calls |-> SetOf(pc[c], rows[c])]
ImplementsResultSet == Promised!Spec

(* Control always comes back to the executor, and a half read set ends:    *)
(* the next call after the only row is the last one, or the site is shut   *)
(* down.                                                                   *)
CallsReturn == \A c \in Calls : pc[c] \in Inside ~> pc[c] \in Outside
SetsEnd == \A c \in Calls : pc[c] = "open" ~> pc[c] \in {"done", "abandoned", "aborted"}
-----------------------------------------------------------------------------
(***************************************************************************)
(* The inductive invariant behind the safety properties: what the fields   *)
(* of a site's function context, the heap and the process-wide state are   *)
(* at each point of the driver.                                            *)
(***************************************************************************)
\* The backend is single threaded.
OneInside == \A c, d \in Calls : (pc[c] \in Inside /\ pc[d] \in Inside) => c = d

\* A site that holds no Records: not begun, ended, failed, or before them.
Unfilled(c) ==
  \/ pc[c] \in {"fresh", "done", "failed", "alloc", "perform", "records"}
  \/ pc[c] = "entered" /\ ~fn_extra[c]

FieldsOK(c) ==
  /\ pc[c] \in FirstCallSteps \cup {"percall", "open"} => fn_extra[c]
  /\ pc[c] \in {"fresh", "done"} => ~fn_extra[c]
  /\ thrown[c] # "none" => pc[c] \in {"delete", "cleanup", "catch", "failed"}
  /\ pc[c] = "catch" => thrown[c] # "none"
  /\ Unfilled(c) => ~user_fctx[c] /\ max_calls[c] = 0 /\ items[c] = <<>>
  /\ Unfilled(c) \/ pc[c] \in FirstCallSteps => rows[c] = 0
  /\ pc[c] \in FirstCallSteps => call_cntr[c] = 0
  /\ pc[c] = "fill" => user_fctx[c]
  /\ pc[c] = "fill" \/ (pc[c] \in {"delete", "cleanup", "catch"} /\ thrown[c] # "none")
       => max_calls[c] = 0 /\ items[c] = <<>>
  /\ pc[c] \in {"delete", "cleanup"} /\ thrown[c] = "none"
       => user_fctx[c] /\ max_calls[c] = 1 /\ items[c] = <<"live">>

\* A site the code will come back to: before or after its only row.
StartedOK(c) ==
  /\ Started(c) =>
       /\ user_fctx[c] /\ max_calls[c] = 1
       /\ \/ call_cntr[c] = 0 /\ rows[c] = 0 /\ items[c] = <<"live">>
          \/ call_cntr[c] = 1 /\ rows[c] = 1 /\ items[c] = <<"nullptr">>
  /\ pc[c] = "open" \/ (pc[c] = "entered" /\ fn_extra[c]) => call_cntr[c] = 1
  /\ pc[c] = "abandoned" => user_fctx[c] /\ items[c] = <<"nullptr">>

HeapOK(c) ==
  /\ "arguments" \in heap[c] => pc[c] \in Inside \cup {"failed", "aborted"}
  /\ "utility" \in heap[c] => pc[c] \in {"perform", "records", "fill", "delete"}
  /\ "records" \in heap[c] <=> user_fctx[c]
  /\ "record" \in heap[c] <=> user_fctx[c] /\ items[c] = <<"live">>
  /\ "exception" \in heap[c] \/ "stray record" \in heap[c] => thrown[c] # "none"

IcuOK ==
  /\ \A c \in Calls : UsesIcu(c) =>
       ("utility" \in heap[c] \/ pc[c] \in {"perform", "records", "fill"} => icu)
  /\ icu => \E c \in Calls : UsesIcu(c) /\ pc[c] \in {"perform", "records", "fill", "delete", "cleanup"}

AttInMetaOK(c) == pc[c] \in FirstCallSteps \/ Started(c) => attinmeta[c] = c

IInv ==
  /\ TypeOK
  /\ OneInside
  /\ ContextDiscipline
  /\ \A c \in Calls : FieldsOK(c)
  /\ \A c \in Calls : StartedOK(c)
  /\ \A c \in Calls : HeapOK(c)
  /\ \A c \in Calls : AttInMetaOK(c)
  /\ IcuOK
=============================================================================
