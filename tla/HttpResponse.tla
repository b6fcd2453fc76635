----------------------------- MODULE HttpResponse -----------------------------
(***************************************************************************)
(* The response of a connection (crow/http_response.h) and how it is put   *)
(* on the wire (prepare_buffers, do_write_static, do_write_general of      *)
(* crow/http_connection.h).  One response object serves all the requests of*)
(* a connection: what it keeps from one request to the next matters.       *)
(*                                                                         *)
(* Of a body only what it is: "empty", some "text", or the "file" read     *)
(* while it is written; the same words are the lengths announced for them. *)
(* Left out: the headers that say nothing of the body, compression, and    *)
(* bodies of a megabyte or more, which are written in parts.               *)
(***************************************************************************)
EXTENDS Naturals, Sequences

CONSTANT Files   \* the regular files of the static directory

NewResponse ==
  [code |-> "200", body |-> "empty", length |-> "none", file |-> FALSE,
   completed |-> FALSE, skip_body |-> FALSE, manual_length_header |-> FALSE]

(* `res = response(code)` takes over neither skip_body nor                 *)
(* manual_length_header; clear() does the same.                            *)
Assigned(r, code) ==
  [r EXCEPT !.code = code, !.body = "empty", !.length = "none",
            !.file = FALSE, !.completed = FALSE]
Clear(r) == Assigned(r, "200")

Text(r, code) == [r EXCEPT !.code = code, !.body = "text"]

(* end(), up to the call of complete_request_handler_. *)
End(r) ==
  IF r.completed THEN r
  ELSE IF r.skip_body
  THEN [r EXCEPT !.completed = TRUE, !.length = r.body, !.body = "empty",
                 !.manual_length_header = TRUE]
  ELSE [r EXCEPT !.completed = TRUE]

EndedForgetful(r) ==  \* mutant: skip_body outlives the request
  [r EXCEPT !.manual_length_header = FALSE]

(* end(), behind that call; not reached when there is no such handler. *)
Ended(r) == [r EXCEPT !.manual_length_header = FALSE, !.skip_body = FALSE]

(* An entry that leads out of the directory or names a device, a colon, and*)
(* a slash in front become "_" (utility::sanitize_filename); what follows a*)
(* slash in front is not looked at as an entry.                            *)
Special == {"..", "con"}
SanitizeFilename(path) ==
  LET StartsEntry(i) == i = 1 \/ (i > 2 /\ path[i - 1] = "/")
      EndsEntry(i) == i = Len(path) \/ path[i + 1] \in {".", ":", "/"}
  IN [i \in DOMAIN path |->
        IF \/ path[i] \in Special /\ StartsEntry(i) /\ EndsEntry(i)
           \/ path[i] = ":"
           \/ path[i] = "/" /\ i = 1
        THEN "_" ELSE path[i]]

SetStaticFileInfo(r, path) ==
  IF path \in Files
  THEN [r EXCEPT !.code = "200", !.file = TRUE, !.length = "file"]
  ELSE [r EXCEPT !.code = "404"]

(* prepare_buffers: an error without a text of its own gets the name of its*)
(* code, and a length is announced unless one was set by hand.             *)
IsError(code) == code \in {"400", "404", "405"}
BodyOf(r) == IF IsError(r.code) /\ r.body = "empty" THEN "text" ELSE r.body

(* What the client gets: the code, the length announced, what follows. *)
Written(verb, r) ==
  [verb |-> verb, code |-> r.code,
   length |-> IF r.length # "none" THEN r.length
              ELSE IF r.manual_length_header THEN "none" ELSE BodyOf(r),
   follows |-> IF r.file THEN "file" ELSE BodyOf(r)]

=============================================================================
