--------------------------- MODULE RestVocabulary ---------------------------
(***************************************************************************)
(* The kinds of request the REST client sends and the ways a call of it    *)
(* can end, as its callers tell them apart.                                *)
(***************************************************************************)

\* The methods of Client, PUT split by whether it renames its own target.
Requests == {"Get", "Post", "PostIdempotent", "Put", "PutRename", "Patch",
             "Delete"}

\* Requests whose execution removes the address they were sent to.
Consuming == {"PutRename", "Delete"}

\* How Client.do returns: "ok" is a nil error, "refused" a status >= 400 that
\* is not transient, "transient" a 429 or 5xx, the others a Go error.
Outcomes == {"ok", "refused", "transient", "aborted", "timeout", "failed",
             "decodeError", "authError"}
=============================================================================
