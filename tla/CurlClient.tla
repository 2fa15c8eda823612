----------------------------- MODULE CurlClient -----------------------------
(***************************************************************************)
(* curl_client (src/curl_client.cpp): requests made one after the other    *)
(* with one libcurl handle.  A request sets its options one by one, lets   *)
(* libcurl perform it, and resets the handle, unless it has returned       *)
(* earlier; what is set on the handle stays set until the reset.           *)
(*                                                                         *)
(* An option is represented by the number of the request it was set for:   *)
(* most options point to objects of that call.  Bodies are numbers of      *)
(* chunks.  The thread of the caller is the only one to use the client;    *)
(* another one may cancel a download.                                      *)
(***************************************************************************)
EXTENDS Naturals, Sequences

CONSTANTS MaxRequests,  \* bound of the model: requests made
          MaxChunks,    \* bound of the model: chunks of a response
          Refusable     \* the options libcurl may refuse to set

Kind == {"http_get", "http_download_file", "http_post", "http_post_with_header",
         "http_patch", "http_patch_without_data", "http_file_upload"}

Option == {"URL", "COMMON", "WRITEDATA", "WRITEFUNCTION", "POST", "POSTFIELDS", "CUSTOMREQUEST",
           "HEADERFUNCTION", "HEADERDATA", "TCP_KEEPALIVE", "MIMEPOST", "HTTPHEADER", "AUTH"}

ASSUME CurlAssumption == /\ MaxRequests \in Nat \ {0} /\ MaxChunks \in Nat
                         /\ Refusable \subseteq Option

VARIABLES
  opt,      \* the handle: for each option the request it was set for, or 0
  method,   \* the handle: the method its options have selected
  fields,   \* _header_fields: the requests their headers were meant for
  mimes,    \* multipart forms in memory
  req,      \* the number of requests made: the last one is the current one
  kind,     \* its kind
  pc,       \* what it is doing
  todo,     \* the options it still has to set
  sent,     \* what libcurl has sent for it
  got,      \* chunks received
  stored,   \* chunks of them that arrived at the stream or file
  cancel,   \* _cancel of the download
  late,     \* chunks written after it was cancelled
  answer,   \* what the last request has returned: the request whose response
            \* code it gives, or 0
  leftover  \* history: a request has returned without resetting the handle

client == <<opt, method, fields, mimes>>
transfer == <<sent, got, stored, cancel, late>>
vars == <<client, req, kind, pc, todo, transfer, answer, leftover>>

Unset == [o \in Option |-> 0]
Nothing == [method |-> "none", headers |-> {}, auth |-> 0, opt |-> Unset]

Init == /\ opt = Unset /\ method = "GET" /\ fields = {} /\ mimes = 0
        /\ req = 0 /\ kind = "http_get" /\ pc = "idle" /\ todo = <<>>
        /\ sent = Nothing /\ got = 0 /\ stored = 0 /\ cancel = FALSE /\ late = 0
        /\ answer = [ok |-> FALSE, code |-> 0] /\ leftover = FALSE
-----------------------------------------------------------------------------
(* Between requests *)

append_header == /\ pc = "idle" /\ req < MaxRequests
                 /\ fields' = fields \union {req + 1}
                 /\ UNCHANGED <<opt, method, mimes, req, kind, pc, todo, transfer, answer, leftover>>

\* enable_auth and enable_bearer_auth.
enable_auth == /\ pc = "idle" /\ req < MaxRequests
               /\ opt' = [opt EXCEPT !["AUTH"] = req + 1]
               /\ UNCHANGED <<method, fields, mimes, req, kind, pc, todo, transfer, answer, leftover>>
-----------------------------------------------------------------------------
(* The options of a request, in their order *)

\* COMMON stands for payload, timeouts, redirection, TLS, agent and verbosity.
prepare_perform == <<"URL", "COMMON">>
Receive == <<"WRITEDATA", "WRITEFUNCTION">>

http_get == prepare_perform \o Receive
http_download_file == prepare_perform \o Receive
http_post == prepare_perform \o Receive \o <<"POST", "POSTFIELDS">>
http_post_with_header ==
  prepare_perform \o Receive \o <<"POST", "POSTFIELDS", "HEADERFUNCTION", "HEADERDATA">>
http_patch == prepare_perform \o Receive \o <<"CUSTOMREQUEST", "POSTFIELDS">>
http_patch_without_data == prepare_perform \o <<"CUSTOMREQUEST">>

\* perform of a form goes on with the options.
Form == <<"TCP_KEEPALIVE", "MIMEPOST">>
http_file_upload == prepare_perform \o Receive \o Form

Options == [http_get |-> http_get, http_download_file |-> http_download_file,
            http_post |-> http_post, http_post_with_header |-> http_post_with_header,
            http_patch |-> http_patch, http_patch_without_data |-> http_patch_without_data,
            http_file_upload |-> http_file_upload]

\* libcurl: the options that select a method.
Selected(o) == CASE o \in {"POST", "POSTFIELDS"} -> "POST"
                 [] o = "MIMEPOST" -> "MIME"
                 [] OTHER -> method

Call(k) == /\ pc = "idle" /\ req < MaxRequests
           /\ req' = req + 1 /\ kind' = k /\ todo' = Options[k]
           /\ pc' = "options"
           /\ sent' = Nothing /\ got' = 0 /\ stored' = 0 /\ cancel' = FALSE /\ late' = 0
           /\ UNCHANGED <<client, answer, leftover>>

SetOption == /\ pc = "options" /\ todo # <<>>
             /\ opt' = [opt EXCEPT ![Head(todo)] = req]
             /\ method' = Selected(Head(todo))
             /\ mimes' = mimes + (IF Head(todo) = "MIMEPOST" THEN 1 ELSE 0)
             /\ todo' = Tail(todo)
             /\ UNCHANGED <<fields, req, kind, pc, transfer, answer, leftover>>

\* Every option that cannot be set ends the request, and what it has set stays.
\* The form is built before MIMEPOST is set.
SetOptionFails == /\ pc = "options" /\ todo # <<>> /\ Head(todo) \in Refusable
                  /\ mimes' = mimes + (IF Head(todo) = "MIMEPOST" THEN 1 ELSE 0)
                  /\ todo' = <<>> /\ pc' = "idle"
                  /\ answer' = [ok |-> FALSE, code |-> 0]
                  /\ leftover' = TRUE
                  /\ UNCHANGED <<opt, method, fields, req, kind, transfer>>
-----------------------------------------------------------------------------
(* perform *)

\* Mutant: the headers are kept for the next request.
ResetKeepingFields == /\ opt' = Unset /\ method' = "GET"
                      /\ UNCHANGED fields

\* The header fields are cleared and curl_easy_reset is called.
Reset == /\ opt' = Unset /\ method' = "GET"
         /\ fields' = {}

\* The headers of the request become an option, except for an upload: its
\* perform does not look at them.
Perform ==
  /\ pc = "options" /\ todo = <<>>
  /\ LET used == IF kind = "http_file_upload" \/ fields = {} THEN opt ELSE [opt EXCEPT !["HTTPHEADER"] = req]
     IN  /\ opt' = used
         /\ sent' = [method |-> IF used["CUSTOMREQUEST"] # 0 THEN "PATCH" ELSE method,
                     headers |-> IF kind = "http_file_upload" THEN {} ELSE fields,
                     auth |-> used["AUTH"],
                     opt |-> used]
  /\ pc' = "transfer"
  /\ UNCHANGED <<method, fields, mimes, req, kind, todo, got, stored, cancel, late, answer, leftover>>

\* A failure to set the headers does not keep perform from its end.
PerformFails == /\ pc = "options" /\ todo = <<>> /\ kind # "http_file_upload" /\ fields # {}
                /\ "HTTPHEADER" \in Refusable
                /\ Reset
                /\ pc' = "idle"
                /\ answer' = [ok |-> FALSE, code |-> 0]
                /\ leftover' = FALSE
                /\ UNCHANGED <<mimes, req, kind, todo, transfer>>

\* curl_wcb_to_stream: a chunk there is no memory for is lost, and the
\* transfer goes on.  Without a callback of its own a response goes to the console.
curl_wcb_to_stream == /\ pc = "transfer" /\ kind # "http_download_file" /\ got < MaxChunks
                      /\ sent.opt["WRITEFUNCTION"] # 0
                      /\ got' = got + 1
                      /\ stored' \in {stored, stored + 1}
                      /\ UNCHANGED <<client, req, kind, pc, todo, sent, cancel, late, answer, leftover>>

\* Mutant: update does not look at _cancel.
UpdateUnasked == /\ pc = "transfer" /\ kind = "http_download_file" /\ got < MaxChunks
                 /\ got' = got + 1
                 /\ pc' = "write"
                 /\ UNCHANGED <<client, req, kind, todo, sent, stored, cancel, late, answer, leftover>>

\* curl_wcb_to_ctx and http_download_ctx::update: the chunk of a cancelled
\* download is refused, and libcurl gives up.
update == /\ pc = "transfer" /\ kind = "http_download_file" /\ got < MaxChunks
          /\ got' = got + 1
          /\ pc' = IF cancel THEN "aborted" ELSE "write"
          /\ UNCHANGED <<client, req, kind, todo, sent, stored, cancel, late, answer, leftover>>

\* Mutant: the result of WriteFile is not looked at.
WriteFileUnchecked == /\ pc = "write"
                      /\ \/ stored' = stored + 1 /\ late' = late + (IF cancel THEN 1 ELSE 0)
                         \/ UNCHANGED <<stored, late>>
                      /\ pc' = "transfer"
                      /\ UNCHANGED <<client, req, kind, todo, sent, got, cancel, answer, leftover>>

WriteFile == /\ pc = "write"
             /\ \/ /\ stored' = stored + 1 /\ late' = late + (IF cancel THEN 1 ELSE 0)
                   /\ pc' = "transfer"
                \/ /\ UNCHANGED <<stored, late>>
                   /\ pc' = "aborted"
             /\ UNCHANGED <<client, req, kind, todo, sent, got, cancel, answer, leftover>>

\* Another thread.
cancel_download == /\ kind = "http_download_file" /\ pc # "idle"
                   /\ cancel' = TRUE
                   /\ UNCHANGED <<client, req, kind, pc, todo, sent, got, stored, late, answer, leftover>>

FormsFreed == IF kind = "http_file_upload" THEN 1 ELSE 0

\* libcurl has the response, and its code can be had.
Done == /\ pc = "transfer"
        /\ Reset
        /\ mimes' = mimes - FormsFreed
        /\ pc' = "idle"
        /\ answer' = [ok |-> TRUE, code |-> req]
        /\ leftover' = FALSE
        /\ UNCHANGED <<req, kind, todo, transfer>>

\* The connection, the transfer or the response code fails.
Fails == /\ pc \in {"transfer", "aborted"}
         /\ IF kind = "http_file_upload"
            THEN leftover' = TRUE /\ UNCHANGED <<opt, method, fields>>
            ELSE leftover' = FALSE /\ Reset
         /\ pc' = "idle"
         /\ answer' = [ok |-> FALSE, code |-> 0]
         /\ UNCHANGED <<mimes, req, kind, todo, transfer>>

Next == \/ append_header \/ enable_auth
        \/ \E k \in Kind : Call(k)
        \/ SetOption \/ SetOptionFails \/ Perform \/ PerformFails
        \/ curl_wcb_to_stream \/ update \/ WriteFile \/ cancel_download
        \/ Done \/ Fails

Spec == Init /\ [][Next]_vars
-----------------------------------------------------------------------------
\* Every variable has its type, and no form is freed twice.
TypeOK ==
  /\ opt \in [Option -> 0..MaxRequests] /\ method \in {"GET", "POST", "MIME"}
  /\ fields \subseteq 1..MaxRequests /\ mimes \in 0..MaxRequests
  /\ req \in 0..MaxRequests /\ kind \in Kind
  /\ pc \in {"idle", "options", "transfer", "write", "aborted"}
  /\ got \in 0..MaxChunks /\ stored \in 0..got
  /\ cancel \in BOOLEAN /\ late \in 0..MaxChunks
  /\ answer.ok \in BOOLEAN /\ answer.code \in 0..MaxRequests

\* The method the name of the function promises.
Promised(k) == CASE k \in {"http_get", "http_download_file"} -> "GET"
                 [] k \in {"http_post", "http_post_with_header"} -> "POST"
                 [] k \in {"http_patch", "http_patch_without_data"} -> "PATCH"
                 [] k = "http_file_upload" -> "MIME"

\* After requests that have come to their reset, whatever they were and however
\* they ended, a request is performed with the method of its function, with the
\* headers and the credentials it was given, and with options of its own: none
\* points to an object of a call that has returned.
OwnRequest ==
  /\ TypeOK
  /\ pc = "transfer" /\ ~leftover =>
    /\ sent.method = Promised(kind)
    /\ sent.headers \subseteq {req} /\ sent.auth \in {0, req}
    /\ \A o \in Option : sent.opt[o] \in {0, req}

\* A request that returns true gives the response code of its own response, and
\* a download has then written every chunk, whatever was cancelled when.
TrueIsAnAnswer ==
  pc = "idle" /\ answer.ok =>
    /\ answer.code = req
    /\ kind = "http_download_file" => stored = got

\* Once another thread has cancelled a download, at most the chunk that is
\* being written still gets into the file.
CancelStops == late <= 1
=============================================================================
