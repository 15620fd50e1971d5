------------------------------ MODULE GrpcStatus ------------------------------
(* The status codes of gRPC and what the gateway's WriteError makes of them. *)

GrpcCodes ==
  {"OK", "Canceled", "Unknown", "InvalidArgument", "DeadlineExceeded", "NotFound",
   "AlreadyExists", "PermissionDenied", "ResourceExhausted", "FailedPrecondition", "Aborted",
   "OutOfRange", "Unimplemented", "Internal", "Unavailable", "DataLoss", "Unauthenticated"}

\* Mutant of HttpOf: an empty answer is a good one.
HttpOf_FoundNothing(code) ==
  CASE code \in {"OK", "NotFound"} -> 200
    [] code \in {"InvalidArgument", "FailedPrecondition", "OutOfRange"} -> 400
    [] code = "ResourceExhausted" -> 429
    [] code = "Unavailable" -> 503
    [] code = "DeadlineExceeded" -> 504
    [] OTHER -> 500

HttpOf(code) ==
  CASE code = "OK" -> 200
    [] code \in {"InvalidArgument", "FailedPrecondition", "OutOfRange"} -> 400
    [] code = "Unauthenticated" -> 401
    [] code = "PermissionDenied" -> 403
    [] code = "NotFound" -> 404
    [] code \in {"AlreadyExists", "Aborted"} -> 409
    [] code = "ResourceExhausted" -> 429
    [] code = "Unimplemented" -> 501
    [] code = "Unavailable" -> 503
    [] code = "DeadlineExceeded" -> 504
    [] OTHER -> 500

HttpStatuses == {HttpOf(code) : code \in GrpcCodes}

================================================================================
