-------------------------------- MODULE CApi --------------------------------
(***************************************************************************)
(* What the C API tells of a call: the lucet_error that it returns and the *)
(* lucet_result that it writes, as functions of what the call came to in   *)
(* Vmctx.  Every call of the C API that runs, resumes or resets an         *)
(* instance makes the Rust call of the same name and then converts its     *)
(* result, so there are no actions here.                                   *)
(*                                                                         *)
(* Sources: lucet-runtime-internals/src/c_api.rs, lucet-runtime/src/       *)
(* c_api.rs and lucet-runtime/include/lucet_types.h.  A definition that    *)
(* directly precedes one of nearly the same name and is used nowhere is    *)
(* that definition with a slip in it.                                      *)
(***************************************************************************)
EXTENDS Vmctx

\* A panic of the runtime does not come back to the caller.
Comes(kind) == kind \in {"returned", "yielded", "ok", "fault", "terminated", "needs start",
                         "invalid argument", "start already run", "unsupported", "setup error",
                         "details error"}

\* From<&Error> for lucet_error, and the Ok that the functions put in its place
LucetError(kind) ==
    CASE kind \in {"returned", "yielded", "ok"} -> "Ok"
      [] kind = "fault" -> "RuntimeFault"
      [] kind = "terminated" -> "RuntimeTerminated"
      [] kind = "needs start" -> "InstanceNeedsStart"
      [] kind = "invalid argument" -> "InvalidArgument"
      [] kind = "start already run" -> "StartAlreadyRun"
      [] kind = "unsupported" -> "Unsupported"
      [] kind \in {"setup error", "details error"} -> "Internal"

\* From<Result<RunResult, Error>> for lucet_result: the tag
LucetResultTagNoFault(kind) ==
    CASE kind = "returned" -> "Returned"
      [] kind = "yielded" -> "Yielded"
      [] kind = "terminated" -> "Terminated"
      [] OTHER -> "Errored"
LucetResultTag(kind) ==
    CASE kind = "returned" -> "Returned"
      [] kind = "yielded" -> "Yielded"
      [] kind = "fault" -> "Faulted"
      [] kind = "terminated" -> "Terminated"
      [] OTHER -> "Errored"

\* enum lucet_terminated_reason as Rust lays it out, and as the header does
RustReasons ==
    << "Signal", "CtxNotFound", "YieldTypeMismatch", "BorrowError", "Provided", "Remote",
       "OtherPanic", "BlockOnNeedsAsync", "HeapOutOfMemory" >>
HeaderReasons ==
    << "Signal", "CtxNotFound", "YieldTypeMismatch", "BorrowError", "Provided", "Remote",
       "BlockOnNeedsAsync", "HeapOutOfMemory", "OtherPanic" >>

\* The number that lucet_terminated has for TerminationDetails of this kind, and what a C
\* program that was compiled with the header takes the number for
LucetTerminatedReason(kind) == CHOOSE n \in DOMAIN RustReasons : RustReasons[n] = kind
ReadInC(n) == HeaderReasons[n]

\* lucet_instance_run, lucet_instance_run_func_idx and lucet_instance_resume have come
\* back, and nothing else has been called since.
ResultWritten == result.api \in {"run", "resume"} /\ Comes(result.kind)

-----------------------------------------------------------------------------

\* The lucet_result and the lucet_error tell what became of the instance.  After Returned
\* it is ready and no guest is left; after Yielded the guest waits for a value of the type
\* that resume will ask for; after Faulted it may be run again, since a fatal fault does
\* not come back; after Terminated it has to be reset, and there is a reason.  After
\* Errored the error is one of three: the start function has not run; the argument was
\* wrong, and for a run this means a state in which the function still cannot be run; or,
\* for an error inside the runtime, the guest is gone, as after a set-up that failed or a
\* fault without details.
CResultAgrees ==
    ResultWritten =>
        LET err == LucetError(result.kind)
            tag == LucetResultTag(result.kind)
        IN  /\ tag = "Returned" => state = "Ready" /\ frame = NoFrame
            /\ tag = "Yielded" => state = "Yielded" /\ frame.waits = expecting
            /\ tag = "Faulted" => state = "Faulted" /\ ~fatal
            /\ tag = "Terminated" => /\ state = "Terminated"
                                     /\ \E n \in DOMAIN RustReasons : RustReasons[n] = details.kind
            /\ tag = "Errored" =>
                  \/ err = "InstanceNeedsStart" /\ state = "NotStarted"
                  \/ err = "InvalidArgument" /\ (result.api = "run" => ~Runnable(result.func))
                  \/ /\ err = "Internal" /\ frame = NoFrame
                     /\ state \in {"NotStarted", "Ready", "Transitioning"}

\* The header's enum lucet_terminated_reason: a C program reads the reason for which the
\* instance was terminated.  Three reasons are misread: README.md, Disagreements.
CReadsTheReason ==
    ResultWritten /\ LucetResultTag(result.kind) = "Terminated" =>
        ReadInC(LucetTerminatedReason(details.kind)) = details.kind
=============================================================================
