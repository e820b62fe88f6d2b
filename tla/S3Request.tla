------------------------------ MODULE S3Request ------------------------------
(***************************************************************************)
(* The requests of S3fsCurl, from the builder of a request to the result    *)
(* its caller sees: the options and headers of the first attempt, signing   *)
(* with keys that may have to be fetched first, what curl and S3 answer,    *)
(* RemakeHandle and the next attempt, and the loop some thread workers run  *)
(* around it.  Before the mount the main thread reads the options, loads    *)
(* the IAM role and checks the bucket (s3fs_check_service).                 *)
(*                                                                          *)
(* A thread's stack holds the request it performs and, above it, the token  *)
(* request it performs while it holds token_lock.  What travels in a body   *)
(* has Size units; pos says how far a callback or curl has got in it.       *)
(***************************************************************************)
EXTENDS Integers, TLC, Credentials

CONSTANTS Workers,   \* threads of the pool
          Main,      \* the thread that mounts
          MaxJobs,   \* how many requests a worker is asked for
          Setups,    \* command lines with the machine, the host, the signature type and the
                     \* requests each worker may be asked for
          SseType,   \* "DISABLE", "S3", "C" or "KMS"
          SseKeys,   \* number of SSE-C keys
          Retries,   \* S3fsCurl::retries
          Size,      \* units of a body, of a part and of a range
          Lifetime,  \* how long the keys of an answer are valid
          Margin,    \* IAM_EXPIRE_MERGING
          MaxTime,   \* bound on the clock
          Codes      \* HTTP codes S3 refuses a request with

ASSUME RequestAssumption ==
  /\ Main \notin Workers /\ None \notin Workers \cup {Main}
  /\ Codes \subseteq Nat /\ Codes \cap 200 .. 299 = {}
  /\ Retries \in Nat \ {0} /\ Size \in Nat \ {0}
  /\ {SseKeys, Lifetime, Margin, MaxTime, MaxJobs} \subseteq Nat
  /\ SseType \in {"DISABLE", "S3", "C", "KMS"}

VARIABLES setup,      \* the command line, the machine, the host and the signature
          start,      \* "options", "role", "cred", "check", "mounted" or "exited"
          cred,       \* the S3fsCred object
          tokenLock,  \* owner of token_lock, None when free
          apiToken,   \* IAMv2_api_token is not empty
          bundle,     \* S3fsCurl::curl_ca_bundle is not empty
          stack,      \* the requests each thread performs, the innermost last
          curl,       \* curlCode of the S3fsCurl object of each thread
          store,      \* what S3 did for the request of each thread, and what is in its file
          jobs,       \* requests each worker was asked for
          now         \* time()

vars == <<setup, start, cred, tokenLock, apiToken, bundle, stack, curl, store, jobs, now>>

Threads == Workers \cup {Main}
NOTSET  == -1
FATAL   == -2
again   == "again"   \* S3FSCURL_PERFORM_RESULT_NOTSET
Done    == "0"

------------------------------------------------------------------------------
(***************************************************************************)
(* The builders.  Of the options of a handle: the method, where the body    *)
(* comes from, what the answer goes to, and CURLOPT_UNRESTRICTED_AUTH.      *)
(***************************************************************************)
Opts(verb, body, into) == [verb |-> verb, body |-> body, into |-> into, unrestricted |-> FALSE]

(* AddSseRequestHead *)
AddSse(type, copy) ==
  CASE type = "DISABLE" -> {}
    [] type = "S3"      -> IF copy THEN {} ELSE {"sse"}
    [] type = "C"       -> IF copy THEN {"copy-sse-c"} ELSE {"sse-c"}
    [] type = "KMS"     -> IF copy THEN {} ELSE {"sse", "sse-kms-id"}

SseC == IF SseType = "C" THEN AddSse("C", FALSE) ELSE {}
Meta == {"meta", "acl", "storage-class", "ahbe"} \cup AddSse(SseType, FALSE)

Built(type, opts, hdrs) == [type |-> type, opts |-> opts, hdrs |-> hdrs]

DeleteRequest             == Built("DELETE", Opts("DELETE", "none", {}), {})
PreHeadRequest(key)       == Built("HEAD", Opts("HEAD", "none", {"headers"}),
                                   IF key = 0 THEN {} ELSE AddSse("C", FALSE))
PutHeadRequest(copy)      == Built("PUTHEAD", Opts("PUT", "empty", {"body"}),
                                   Meta \cup {"content-type"} \cup (IF copy THEN {"copy-source"} ELSE {}))
PutRequest(fd)            == Built("PUT", Opts("PUT", IF fd THEN "file" ELSE "empty", {"body"}),
                                   Meta \cup {"content-type", "content-md5"})
PreGetObjectRequest       == Built("GET", Opts("GET", "none", {"file"}), {"range"} \cup SseC)
CheckBucket(nosse)        == Built("CHKBUCKET", [Opts("GET", "none", {"body"}) EXCEPT !.unrestricted = TRUE],
                                   IF nosse THEN {} ELSE AddSse(SseType, FALSE))
ListBucketRequest         == Built("LISTBUCKET", Opts("GET", "none", {"body"}), {})
PreMultipartUploadRequest == Built("PREMULTIPOST", Opts("POST", "empty", {"body"}),
                                   Meta \cup {"content-type"})
MultipartUploadComplete   == Built("COMPLETEMULTIPOST", Opts("POST", "post", {"body"}),
                                   {"content-type"} \cup SseC)
ContentPart               == Built("UPLOADMULTIPOST", Opts("PUT", "part", {"body", "headers"}),
                                   {"content-md5"} \cup SseC)
CopyPart                  == Built("COPYMULTIPOST", Opts("PUT", "empty", {"body", "headdata"}),
                                   {"content-type", "copy-source", "copy-range"} \cup SseC)
MultipartListRequest      == Built("MULTILIST", Opts("GET", "none", {"body"}), {})
AbortMultipartUpload      == Built("ABORTMULTIUPLOAD", Opts("DELETE", "none", {}), {})
GetIAMv2ApiToken          == Built("UNSET", Opts("PUT", "empty", {"body"}), {"token-ttl"})
GetIAMRoleFromMetaData(k) == Built("IAMROLE", Opts("GET", "none", {"body"}),
                                   IF k THEN {"api-token"} ELSE {})
GetIAMCredentials(k, ibm) == Built("IAMCRED",
                                   IF ibm THEN Opts("POST", "post", {"body"}) ELSE Opts("GET", "none", {"body"}),
                                   (IF k THEN {"api-token"} ELSE {}) \cup (IF ibm THEN {"basic"} ELSE {}))

\* a HEAD without CURLOPT_NOBODY
RemadeOptsForHead(type, f) ==
  IF type = "HEAD" THEN Opts("GET", "none", {"headers"})
  ELSE IF type \in {"DELETE", "ABORTMULTIUPLOAD"} THEN Opts("DELETE", "none", {}) ELSE f.opts

(* The handle of a repeated request: what RemakeHandle sets for a type again. *)
RemadeOpts(type, f) ==
  CASE type \in {"DELETE", "ABORTMULTIUPLOAD"}         -> Opts("DELETE", "none", {})
    [] type = "HEAD"                                   -> Opts("HEAD", "none", {"headers"})
    [] type = "PUTHEAD"                                -> Opts("PUT", "empty", {"body"})
    [] type = "PUT"                                    -> Opts("PUT", IF f.infile THEN "file" ELSE "empty", {"body"})
    [] type = "GET"                                    -> Opts("GET", "none", {"file"})
    [] type \in {"CHKBUCKET", "LISTBUCKET", "MULTILIST", "IAMROLE"} -> Opts("GET", "none", {"body"})
    [] type = "PREMULTIPOST"                           -> Opts("POST", "empty", {"body"})
    [] type = "COMPLETEMULTIPOST"                      -> Opts("POST", "post", {"body"})
    [] type = "UPLOADMULTIPOST"                        -> Opts("PUT", "part", {"body", "headers"})
    [] type = "COPYMULTIPOST"                          -> Opts("PUT", "empty", {"body", "headdata"})
    [] type = "IAMCRED"                                -> IF cred.ibm THEN Opts("POST", "post", {"body"})
                                                          ELSE Opts("GET", "none", {"body"})

------------------------------------------------------------------------------
(***************************************************************************)
(* A request on its way: how often it was tried, the position in its body   *)
(* or its range, the length it announces, the keys it is signed with, what  *)
(* its first attempt sent, and for the workers that loop how often they     *)
(* started it again (loop = -1: not at all).                                *)
(***************************************************************************)
NoKeys == [id |-> None, secret |-> None, token |-> None]

Request(b, auth, loop) ==
  [type |-> b.type, opts |-> b.opts, hdrs |-> b.hdrs, infile |-> b.opts.body = "file",
   auth |-> auth, pc |-> "sign", tries |-> 0, pos |-> 0, length |-> Size, first |-> <<>>,
   keys |-> NoKeys, code |-> NOTSET, error |-> None, result |-> again, key |-> 0, loop |-> loop]

Message(f) == [opts |-> f.opts, hdrs |-> f.hdrs, from |-> f.pos, length |-> f.length]

HasBody(f) == f.opts.body \in {"file", "part", "post"}

Top(t)        == stack[t][Len(stack[t])]
Replaced(t, f) == [stack EXCEPT ![t][Len(stack[t])] = f]

Finished(f, code, error, result) ==
  [f EXCEPT !.pc = "done", !.code = code, !.error = error, !.result = result]

\* goes on in the body where the attempt before stopped
RemakeHandleResumes(f) ==
  [f EXCEPT !.pc = "sign", !.code = NOTSET, !.error = None, !.tries = f.tries + 1,
            !.hdrs = f.hdrs \ {"authorization", "basic"}, !.length = Size - f.pos,
            !.opts = RemadeOpts(f.type, f)]

\* does not count the attempt
RemakeHandleUncounted(f) ==
  [f EXCEPT !.pc = "sign", !.code = NOTSET, !.error = None,
            !.hdrs = f.hdrs \ {"authorization", "basic"}, !.pos = 0, !.length = Size,
            !.opts = RemadeOpts(f.type, f)]

(* RemakeHandle: the headers stay but for Authorization, the position goes back to the start. *)
RemakeHandle(f) ==
  [f EXCEPT !.pc = "sign", !.code = NOTSET, !.error = None, !.tries = f.tries + 1,
            !.hdrs = f.hdrs \ {"authorization", "basic"}, !.pos = 0, !.length = Size,
            !.opts = RemadeOpts(f.type, f)]

\* one attempt more
AttemptedOnceMore(f, code, error, result) ==
  LET last == IF code = NOTSET THEN FATAL ELSE code
  IN IF result # again THEN Finished(f, last, error, result)
     ELSE IF f.type = "UNSET" \/ f.tries = Retries THEN Finished(f, last, error, "EIO")
     ELSE RemakeHandle(f)

(* The end of an attempt: a result, another attempt, or nothing left to try. *)
Attempted(f, code, error, result) ==
  LET last == IF code = NOTSET THEN FATAL ELSE code
  IN IF result # again THEN Finished(f, last, error, result)
     ELSE IF f.type = "UNSET" \/ f.tries + 1 = Retries THEN Finished(f, last, error, "EIO")
     ELSE RemakeHandle(f)

(* The result of an answer (RequestPerform). *)
ResultOf(op, code, error) ==
  CASE code \in 200 .. 299 -> Done
    [] code \notin 200 .. 299 /\ error = "EntityTooLarge"     -> "EFBIG"
    [] code \notin 200 .. 299 /\ error = "InvalidObjectState" -> "EREMOTE"
    [] code \notin 200 .. 299 /\ error = "KeyTooLongError"    -> "ENAMETOOLONG"
    [] OTHER -> CASE code = 400               -> IF op = "HEAD" THEN "EPERM" ELSE "EIO"
                  [] code = 403               -> "EPERM"
                  [] code = 404               -> "ENOENT"
                  [] code = 501               -> "ENOTSUP"
                  [] code \in {429, 500, 503} -> again
                  [] OTHER                    -> "EIO"

(* What the callers ask the workers of the pool for, and which of these loop. *)
Jobs ==
  [built : {DeleteRequest, PreHeadRequest(0), PutHeadRequest(TRUE), PutHeadRequest(FALSE), PutRequest(TRUE),
            PutRequest(FALSE), PreGetObjectRequest, ListBucketRequest, PreMultipartUploadRequest,
            MultipartUploadComplete, ContentPart, CopyPart, MultipartListRequest, AbortMultipartUpload},
   loop : {-1}]
  \cup [built : {PreGetObjectRequest, CopyPart, PreHeadRequest(0)}, loop : {0}]

OptionNames == {"passwd_file", "ibm_iam_auth", "use_session_token", "ibm_iam_endpoint", "imdsv1only", "ecs",
                "iam_role", "profile", "credlib", "credlib_opts"}

ASSUME SetupAssumption ==
  \A s \in Setups :
    s \in [args : Seq([name : OptionNames, value : STRING]), machine : {s.machine}, jobs : [Workers -> SUBSET Jobs],
           host : {"default", "own"}, region : BOOLEAN, sig : {"V2", "V4", "V2_OR_V4"}, nosse : {FALSE}]

ASSUME NamingAssumption == \A s \in Setups : SecretsNamed(s.machine)

------------------------------------------------------------------------------
(* CheckIAMCredentialUpdate and the requests it makes with token_lock held. *)

IdleStart == UNCHANGED <<setup, start, jobs, now>>

CannotSign(t) == stack' = Replaced(t, [Top(t) EXCEPT !.pc = "done", !.result = "EIO"])

Signed(f, c) == [f EXCEPT !.pc = IF f.type = "CRED" THEN "done" ELSE "send",
                          !.result = IF f.type = "CRED" THEN Done ELSE again,
                          !.keys = KeysFor(c), !.hdrs = f.hdrs \cup {"authorization"}]

MustRefresh == Refreshed(cred) /\ cred.expire < now + Margin

Answers == {WholeAnswer(cred), WholeAnswer(cred) \ {"token"}, WholeAnswer(cred) \ {"secret"}}

(* Token requests are not signed: CheckIAMCredentialUpdate would wait for its own lock. *)
TokenRequest(b) == Request(b, FALSE, -1)

AskApiToken  == TokenRequest(GetIAMv2ApiToken)
AskKeys(c)   == TokenRequest(GetIAMCredentials(c.imds > 1 /\ apiToken, c.ibm /\ c.secret # None))

(* GetIAMCredentialsURL *)
UrlKnown == IF cred.ecs THEN setup.machine.ecs ELSE cred.ibm \/ cred.role # None

Unsigned(t) ==
  /\ ~Top(t).auth
  /\ stack' = Replaced(t, [Top(t) EXCEPT !.pc = "send"])
  /\ UNCHANGED <<cred, tokenLock>>

SignAtOnce(t) ==
  /\ Top(t).auth /\ tokenLock = None /\ ~MustRefresh
  /\ stack' = Replaced(t, Signed(Top(t), cred))
  /\ UNCHANGED <<cred, tokenLock>>

SignFromLibrary(t) ==
  /\ Top(t).auth /\ tokenLock = None /\ MustRefresh /\ cred.lib # None
  /\ \E answer \in {{}} \cup Answers :
       LET u == UpdateExtCredentials(cred, answer, ToString(now), now + Lifetime)
       IN /\ cred' = u.cred
          /\ IF u.ok THEN stack' = Replaced(t, Signed(Top(t), u.cred)) ELSE CannotSign(t)
  /\ UNCHANGED tokenLock

(* LoadIAMCredentials *)
SignAfterRefresh(t) ==
  /\ Top(t).auth /\ tokenLock = None /\ MustRefresh /\ cred.lib = None
  /\ IF ~UrlKnown
     THEN CannotSign(t) /\ UNCHANGED tokenLock
     ELSE /\ tokenLock' = t
          /\ stack' = [stack EXCEPT ![t] =
                         Append(@, IF ~cred.ecs /\ ~cred.ibm /\ cred.imds > 1 THEN AskApiToken ELSE AskKeys(cred))]
  /\ UNCHANGED cred

(* insertAuthHeaders, or nothing for a token request *)
Sign(t) ==
  /\ stack[t] # <<>> /\ Top(t).pc = "sign"
  /\ Unsigned(t) \/ SignAtOnce(t) \/ SignFromLibrary(t) \/ SignAfterRefresh(t)
  /\ UNCHANGED <<apiToken, bundle, curl, store>> /\ IdleStart

(* The token service has answered, or has not: a 404 says it does not exist. *)
AfterApiToken(result) ==
  /\ cred' = IF result = "ENOENT" THEN [cred EXCEPT !.imds = 1] ELSE cred
  /\ apiToken' = (apiToken \/ result = Done)

ApiTokenAnswered(t) ==
  /\ Len(stack[t]) = 2 /\ Top(t).pc = "done" /\ Top(t).type = "UNSET"
  /\ AfterApiToken(Top(t).result)
  /\ stack' = Replaced(t, TokenRequest(GetIAMCredentials(cred'.imds > 1 /\ apiToken', FALSE)))
  /\ UNCHANGED <<tokenLock, bundle, curl, store>> /\ IdleStart

(* The end of LoadIAMCredentials. *)
KeysAnswered(t) ==
  /\ Len(stack[t]) = 2 /\ Top(t).pc = "done" /\ Top(t).type = "IAMCRED"
  /\ \E answer \in Answers :
       LET f == stack[t][1]
           u == IF Top(t).result = Done THEN SetIAMCredentials(cred, answer, ToString(now), now + Lifetime)
                ELSE Wrong(cred)
       IN /\ cred' = u.cred
          /\ stack' = [stack EXCEPT ![t] =
                         IF u.ok THEN <<Signed(f, u.cred)>> ELSE <<[f EXCEPT !.pc = "done", !.result = "EIO"]>>]
  /\ tokenLock' = None
  /\ UNCHANGED <<apiToken, bundle, curl, store>> /\ IdleStart

------------------------------------------------------------------------------
(***************************************************************************)
(* curl_easy_perform and the judgement of its outcome.  S3 acts on a        *)
(* request that reached it whole; its answer may still be lost.             *)
(***************************************************************************)
AtS3(t)  == Top(t).auth   \* the others are answered by a token service
NewFile  == [i \in 0 .. Size - 1 |-> "old"]
NewStore == [times |-> 0, whole |-> FALSE, file |-> NewFile]

(* n units of an answer arrive from position pos on (DownloadWriteCallback). *)
Written(file, pos, n, good) ==
  [i \in DOMAIN file |-> IF i \in pos .. pos + n - 1
                         THEN IF good /\ pos = 0 THEN "right" ELSE "wrong" ELSE file[i]]

Acted(t, f) ==
  [store[t] EXCEPT !.times = IF @ = 2 THEN 2 ELSE @ + 1, !.whole = (f.pos = 0),
                   !.file  = IF f.type = "GET" THEN Written(@, f.pos, Size, TRUE) ELSE @]

Stored(t, s) == store' = IF AtS3(t) THEN [store EXCEPT ![t] = s] ELSE store

Reached(f) == HasBody(f) => f.length = Size - f.pos
Fitting(f) == f.type = "GET" => f.pos = 0

Perform(t) == stack[t] # <<>> /\ Top(t).pc = "send"
Ended(t, f, code, error, result, curlcode) ==
  /\ stack' = Replaced(t, Attempted([f EXCEPT !.first = IF @ = <<>> THEN <<Message(f)>> ELSE @],
                                    code, error, result))
  /\ curl' = IF AtS3(t) THEN [curl EXCEPT ![t] = curlcode] ELSE curl
  /\ UNCHANGED <<cred, tokenLock, apiToken>> /\ IdleStart

(* An upload that is already completed or aborted is no longer there. *)
Gone(t, f) == f.type \in {"COMPLETEMULTIPOST", "ABORTMULTIUPLOAD"} /\ store[t].times > 0

Succeeds(t) ==
  LET f == Top(t) IN
  /\ Perform(t) /\ Reached(f) /\ Fitting(f) /\ ~Gone(t, f)
  /\ Stored(t, Acted(t, f))
  /\ Ended(t, f, 200, None, Done, "OK")
  /\ UNCHANGED bundle

(* S3 answers 200 and says in the body that it failed. *)
SucceedsWithError(t) ==
  LET f == Top(t) IN
  /\ Perform(t) /\ Reached(f) /\ AtS3(t)
  /\ f.type \in {"PUT", "PUTHEAD", "PREMULTIPOST", "UPLOADMULTIPOST", "COPYMULTIPOST", "COMPLETEMULTIPOST"}
  /\ Ended(t, f, 200, "InternalError", ResultOf(f.opts.verb, 200, "InternalError"), "OK")
  /\ UNCHANGED <<store, bundle>>

(* The body of such an answer to a GET goes to the file as well. *)
Refused(t) ==
  LET f == Top(t) IN
  /\ Perform(t) /\ Reached(f)
  /\ \E code \in Codes, error \in {None, "EntityTooLarge", "region", "endpoint", "sse"} :
       /\ error = "EntityTooLarge" => f.type = "PUT" /\ code = 400
       /\ error \in {"region", "endpoint", "sse"} => f.type = "CHKBUCKET" /\ code = 400
       /\ Gone(t, f) => code = 404
       /\ Ended(t, f, code, error, ResultOf(f.opts.verb, code, error), "OK")
  /\ Stored(t, [store[t] EXCEPT !.file = IF f.type = "GET" THEN Written(@, f.pos, 1, FALSE) ELSE @])
  /\ UNCHANGED bundle

(* The connection breaks before S3 has the request, or curl gives it up while it is sent or received. *)
Breaks(t) ==
  LET f == Top(t) IN
  /\ Perform(t)
  /\ \E p \in IF HasBody(f) \/ f.type = "GET" THEN f.pos .. Size ELSE {f.pos} :
       LET g == [f EXCEPT !.pos = p] IN
       /\ stack' = Replaced(t, Attempted([g EXCEPT !.first = IF @ = <<>> THEN <<Message(f)>> ELSE @],
                                         NOTSET, None, again))
       /\ Stored(t, [store[t] EXCEPT !.file = IF f.type = "GET" THEN Written(@, f.pos, p - f.pos, TRUE) ELSE @])
  /\ curl' = IF AtS3(t) THEN [curl EXCEPT ![t] = "BAD"] ELSE curl
  /\ UNCHANGED <<bundle, cred, tokenLock, apiToken>> /\ IdleStart

(* S3 acted and its answer is lost. *)
AnswerLost(t) ==
  LET f == Top(t) IN
  /\ Perform(t) /\ Reached(f) /\ ~Gone(t, f) /\ f.type # "GET"
  /\ Stored(t, Acted(t, f))
  /\ Ended(t, f, NOTSET, None, again, "BAD")
  /\ UNCHANGED bundle

(* The certificate is not known: the bundle is looked for once, whoever's request it was. *)
Distrusted(t) ==
  LET f == Top(t) IN
  /\ Perform(t)
  /\ \E found \in BOOLEAN :
       /\ found => ~bundle
       /\ bundle' = (bundle \/ found)
       /\ Ended(t, f, NOTSET, None, IF found THEN again ELSE "EIO", "BAD")
  /\ UNCHANGED store

Send(t) == Succeeds(t) \/ SucceedsWithError(t) \/ Refused(t) \/ Breaks(t) \/ AnswerLost(t) \/ Distrusted(t)
------------------------------------------------------------------------------
(***************************************************************************)
(* After RequestPerform: what the builder makes of the answer, the SSE-C    *)
(* keys a HEAD is tried with, and the loop of a thread worker.              *)
(***************************************************************************)
(* MapPutErrorResponse; a part needs its ETag, a new upload its id. *)
Mapped(f) ==
  IF f.result = Done /\ f.error # None /\ f.type \in {"PUT", "PUTHEAD", "UPLOADMULTIPOST", "PREMULTIPOST"}
  THEN [f EXCEPT !.result = "EIO"] ELSE f

Restarted(t, f) ==
  [Request(CASE f.type = "HEAD"          -> PreHeadRequest(0)
             [] f.type = "GET"           -> PreGetObjectRequest
             [] f.type = "COPYMULTIPOST" -> CopyPart, TRUE, f.loop + 1) EXCEPT !.first = <<>>]

(* HeadRequest: a failure is tried again with every SSE-C key. *)
NextKey(t) ==
  LET f == Top(t) IN
  /\ Len(stack[t]) = 1 /\ f.pc = "done" /\ f.type = "HEAD" /\ f.result # Done /\ f.key < SseKeys
  /\ stack' = [stack EXCEPT ![t] = <<[Request(PreHeadRequest(f.key + 1), TRUE, f.loop) EXCEPT !.key = f.key + 1]>>]
  /\ UNCHANGED <<cred, tokenLock, apiToken, bundle, curl, store>> /\ IdleStart

Over(t) ==
  /\ Len(stack[t]) = 1 /\ Top(t).pc = "done"
  /\ Top(t).type = "HEAD" => Top(t).result = Done \/ Top(t).key = SseKeys

(* The workers of multi_head_request, parallel_get_object_request and multipart_put_head_request. *)
LoopVerdict(f, curlcode) ==
  IF curlcode = "OK" /\ f.code < 400 THEN "success"
  ELSE IF curlcode = "OK" /\ f.code = 404 THEN "failure"
  ELSE IF f.loop + 1 > Retries THEN "failure"
  ELSE "repeat"

Answered(t) ==
  LET f == Mapped(Top(t))
      v == IF f.loop = -1 THEN "result" ELSE LoopVerdict(f, curl[t])
  IN /\ Over(t)
     /\ stack' = CASE v = "result"  -> Replaced(t, [f EXCEPT !.pc = "over"])
                   [] v = "success" -> Replaced(t, [f EXCEPT !.pc = "over", !.result = Done])
                   [] v = "failure" -> Replaced(t, [f EXCEPT !.pc = "over",
                                                             !.result = IF @ = Done THEN "EIO" ELSE @])
                   [] v = "repeat"  -> Replaced(t, Restarted(t, f))
     /\ UNCHANGED <<cred, tokenLock, apiToken, bundle, curl, store>> /\ IdleStart

(* A worker takes an instruction; its S3fsCurl object is cleared but for curlCode. *)
Instruct(w) ==
  /\ start = "mounted" /\ stack[w] = <<>> /\ jobs[w] < MaxJobs
  /\ \E j \in setup.jobs[w] : stack' = [stack EXCEPT ![w] = <<Request(j.built, TRUE, j.loop)>>]
  /\ store' = [store EXCEPT ![w] = NewStore]
  /\ jobs' = [jobs EXCEPT ![w] = @ + 1]
  /\ UNCHANGED <<setup, start, cred, tokenLock, apiToken, bundle, curl, now>>

End(w) ==
  /\ Len(stack[w]) = 1 /\ Top(w).pc = "over"
  /\ stack' = [stack EXCEPT ![w] = <<>>]
  /\ UNCHANGED <<cred, tokenLock, apiToken, bundle, curl, store>> /\ IdleStart

------------------------------------------------------------------------------
(* The mount: s3fs.cpp's option parsing, s3fs_init and s3fs_check_service. *)

MainIdle == UNCHANGED <<tokenLock, apiToken, bundle, curl, store, jobs, now>>

Option ==
  /\ start = "options" /\ setup.args # <<>>
  /\ LET r == DetectParam(cred, Head(setup.args).name, Head(setup.args).value)
     IN cred' = r.cred /\ start' = IF r.ok THEN start ELSE "exited"
  /\ setup' = [setup EXCEPT !.args = Tail(@)]
  /\ UNCHANGED stack /\ MainIdle

Params ==
  /\ start = "options" /\ setup.args = <<>>
  /\ LET r == CheckAllParams(cred, setup.machine)
     IN cred' = r.cred /\ start' = IF r.ok THEN "role" ELSE "exited"
  /\ UNCHANGED <<setup, stack>> /\ MainIdle

CredFrame == Request(Built("CRED", Opts("GET", "none", {}), {}), TRUE, -1)   \* CheckIAMCredentialUpdate alone
AskRole(c, token) == TokenRequest(GetIAMRoleFromMetaData(c.imds > 1 /\ token))
AskCheck(s)       == Request(CheckBucket(s.nosse), TRUE, -1)

(* LoadIAMRoleFromMetaData *)
LoadRole ==
  /\ start = "role" /\ stack[Main] = <<>>
  /\ IF ~cred.loadrole
     THEN start' = "cred" /\ stack' = [stack EXCEPT ![Main] = <<CredFrame>>]
     ELSE IF cred.ecs /\ ~setup.machine.ecs THEN start' = "exited" /\ UNCHANGED stack
     ELSE /\ stack' = [stack EXCEPT ![Main] =
                         <<IF ~cred.ecs /\ ~cred.ibm /\ cred.imds > 1 THEN AskApiToken ELSE AskRole(cred, apiToken)>>]
          /\ UNCHANGED start
  /\ UNCHANGED <<setup, cred>> /\ MainIdle

RoleTokenAnswered ==
  /\ start = "role" /\ stack[Main] # <<>> /\ Top(Main).pc = "over" /\ Top(Main).type = "UNSET"
  /\ AfterApiToken(Top(Main).result)
  /\ stack' = [stack EXCEPT ![Main] = <<AskRole(cred', apiToken')>>]
  /\ UNCHANGED <<tokenLock, bundle, curl, store>> /\ IdleStart

RoleAnswered ==
  /\ start = "role" /\ stack[Main] # <<>> /\ Top(Main).pc = "over" /\ Top(Main).type = "IAMROLE"
  /\ \E role \in {None, "role"} :
       LET u == IF Top(Main).result = Done THEN SetIAMRole(cred, role) ELSE Wrong(cred)
       IN /\ cred' = u.cred
          /\ start' = IF u.ok THEN "cred" ELSE "exited"
          /\ stack' = [stack EXCEPT ![Main] = IF u.ok THEN <<CredFrame>> ELSE <<>>]
  /\ UNCHANGED setup /\ MainIdle

FirstRefresh ==
  /\ start = "cred" /\ stack[Main] # <<>> /\ Top(Main).pc = "over"
  /\ IF Top(Main).result = Done
     THEN start' = "check" /\ stack' = [stack EXCEPT ![Main] = <<AskCheck(setup)>>]
     ELSE start' = "exited" /\ stack' = [stack EXCEPT ![Main] = <<>>]
  /\ UNCHANGED <<setup, cred>> /\ MainIdle

(* What s3fs_check_service makes of a check that failed: the next settings and whether to go on. *)
AfterCheck(s, code, error) ==
  LET judged == code \in 300 .. 499
      moved  == judged /\ error = "region"
      other  == moved /\ s.host = "default" /\ ~s.region /\ s.sig \in {"V4", "V2_OR_V4"}
      first  == IF other THEN [s EXCEPT !.host = "regional"]
                ELSE IF judged /\ error = "sse" THEN [s EXCEPT !.nosse = TRUE] ELSE s
      loops  == ~moved \/ other
      older  == ~loops /\ code \in {400, 403} /\ s.sig = "V2_OR_V4"
  IN [exits |-> (judged /\ error = "endpoint") \/ (~loops /\ ~older /\ code \notin {200, 301}),
      loops |-> loops \/ older,
      setup |-> IF older THEN [first EXCEPT !.sig = "V2"] ELSE first]

CheckAnswered ==
  /\ start = "check" /\ stack[Main] # <<>> /\ Top(Main).pc = "over"
  /\ LET f == Top(Main)
         a == AfterCheck(setup, f.code, f.error)
         goes == f.result # Done /\ ~a.exits /\ a.loops
         after == IF f.result = Done THEN setup ELSE a.setup
     IN /\ start' = IF goes THEN "check" ELSE IF f.result # Done /\ a.exits THEN "exited" ELSE "mounted"
        /\ setup' = IF goes THEN after ELSE [after EXCEPT !.nosse = FALSE]   \* it was a local variable
        /\ stack' = [stack EXCEPT ![Main] = IF goes THEN <<AskCheck(a.setup)>> ELSE <<>>]
  /\ store' = [store EXCEPT ![Main] = NewStore] /\ curl' = [curl EXCEPT ![Main] = "OK"]
  /\ UNCHANGED <<cred, tokenLock, apiToken, bundle, jobs, now>>

Mount == Option \/ Params \/ LoadRole \/ RoleTokenAnswered \/ RoleAnswered \/ FirstRefresh \/ CheckAnswered

Tick == now < MaxTime /\ now' = now + 1
        /\ UNCHANGED <<setup, start, cred, tokenLock, apiToken, bundle, stack, curl, store, jobs>>

------------------------------------------------------------------------------
Init ==
  /\ setup \in Setups
  /\ start = "options" /\ cred = NewCred /\ tokenLock = None /\ apiToken = FALSE
  /\ bundle = FALSE /\ now = 0
  /\ stack = [t \in Threads |-> <<>>]
  /\ curl  = [t \in Threads |-> "OK"]
  /\ store = [t \in Threads |-> NewStore]
  /\ jobs  = [w \in Workers |-> 0]

Performs(t) == Sign(t) \/ Send(t) \/ ApiTokenAnswered(t) \/ KeysAnswered(t) \/ NextKey(t) \/ Answered(t)

Next == Mount \/ Tick \/ (\E t \in Threads : Performs(t)) \/ (\E w \in Workers : Instruct(w) \/ End(w))

Spec == Init /\ [][Next]_vars

(* Every call of curl returns (the timeouts of the handle), and threads are scheduled. *)
FairSpec == Spec /\ WF_vars(Performs(Main)) /\ \A w \in Workers : WF_vars(Performs(w) \/ End(w))

FairMount == Spec /\ WF_vars(Mount \/ Performs(Main))

------------------------------------------------------------------------------
ReqTypeOK ==
  /\ start \in {"options", "role", "cred", "check", "mounted", "exited"}
  /\ tokenLock \in Threads \cup {None} /\ apiToken \in BOOLEAN /\ bundle \in BOOLEAN
  /\ curl \in [Threads -> {"OK", "BAD"}] /\ now \in 0 .. MaxTime
  /\ jobs \in [Workers -> 0 .. MaxJobs]
  /\ \A t \in Threads :
       /\ Len(stack[t]) <= 2
       /\ \A i \in DOMAIN stack[t] : stack[t][i].tries \in 0 .. Retries - 1 /\ stack[t][i].pos \in 0 .. Size
       /\ store[t].times \in 0 .. 2 /\ store[t].file \in [0 .. Size - 1 -> {"old", "right", "wrong"}]
       /\ tokenLock = t => Len(stack[t]) = 2

Frames == UNION {{stack[t][i] : i \in DOMAIN stack[t]} : t \in Threads}

(* A repeated request is the first one again: method, headers, the whole body from its start and   *)
(* the length that goes with it (RemakeHandle against the builders).  Three things get lost: the   *)
(* Authorization of IBM's token request, CURLOPT_UNRESTRICTED_AUTH of the bucket check, and that   *)
(* IBM's keys are asked for with a GET when no secret is known: RemakeHandle makes it a POST.      *)
SameRequestAgain ==
  \A f \in Frames :
    f.pc = "send" /\ f.first # <<>> /\ ~(f.type = "IAMCRED" /\ cred.ibm /\ cred.secret = None) =>
      Message(f) = [f.first[1] EXCEPT !.opts.unrestricted = FALSE, !.hdrs = @ \ {"basic"}]

(* A success that was answered is one: S3 acted on the whole body, and a downloaded range is in    *)
(* the file, whatever went wrong in the attempts before (RequestPerform, MapPutErrorResponse, the  *)
(* callbacks).  The answers to a copied part and to a completion are not looked into here.         *)
SuccessMeansDone ==
  \A t \in Threads :
    stack[t] # <<>> /\ Top(t).pc = "over" =>
      LET f == Top(t) IN
      /\ f.auth /\ f.type # "CRED" /\ f.result = Done /\ f.code \in 200 .. 299
      /\ f.error = None \/ f.type \notin {"COPYMULTIPOST", "COMPLETEMULTIPOST"}
      => IF f.type = "GET" THEN \A i \in DOMAIN store[t].file : store[t].file[i] = "right"
         ELSE store[t].times > 0 /\ store[t].whole

(* Keys that sign a request were written in one place, or came with one answer: those of another   *)
(* profile, of an expired answer or of an answer that was refused are never mixed in.              *)
KeysOfOneSource ==
  \A f \in Frames : f.pc = "send" /\ ~cred.ibm => OneName({f.keys.id, f.keys.secret, f.keys.token})

(* Every request ends, those that wait for token_lock while another thread fetches keys included.  *)
RequestsEnd == \A w \in Workers : stack[w] # <<>> ~> stack[w] = <<>>

CheckedNotFound == /\ start = "check" /\ stack[Main] # <<>>
                   /\ Top(Main).pc = "over" /\ Top(Main).code = 404

(* S3 is not asked for ever for a mount point that it says is not there: "if the directory(object) *)
(* for the mount point does not exist, the check fails" (s3fs_check_service).                      *)
NotFoundEndsStartup == <>[]~CheckedNotFound
==============================================================================
