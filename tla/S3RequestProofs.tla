--------------------------- MODULE S3RequestProofs ---------------------------
(***************************************************************************)
(* Proofs about S3Request, for any number of threads, jobs and retries, any *)
(* command line and machine, any codes that S3 refuses with and any size of *)
(* a body.                                                                  *)
(***************************************************************************)
EXTENDS S3Request, SequenceTheorems, TLAPS

-----------------------------------------------------------------------------
(***************************************************************************)
(* The shape of the state.  What the files and the services of the machine  *)
(* give for keys stays unknown: the fields that hold it have their own      *)
(* value for a type.                                                        *)
(***************************************************************************)
Types == {"DELETE", "HEAD", "PUTHEAD", "PUT", "GET", "CHKBUCKET", "LISTBUCKET", "PREMULTIPOST", "COMPLETEMULTIPOST",
          "UPLOADMULTIPOST", "COPYMULTIPOST", "MULTILIST", "ABORTMULTIUPLOAD", "UNSET", "IAMROLE", "IAMCRED", "CRED"}
Verbs   == {"DELETE", "GET", "HEAD", "POST", "PUT"}
Bodies  == {"none", "empty", "file", "part", "post"}
Sinks   == {"headers", "body", "file", "headdata"}
Options == [verb : Verbs, body : Bodies, into : SUBSET Sinks, unrestricted : BOOLEAN]
Headers == {"authorization", "basic", "meta", "acl", "storage-class", "ahbe", "sse", "copy-sse-c", "sse-c",
            "sse-kms-id", "content-type", "copy-source", "content-md5", "range", "copy-range", "token-ttl", "api-token"}
Messages == [opts : Options, hdrs : SUBSET Headers, from : 0 .. Size, length : 0 .. Size]
Errors  == {None, "InternalError", "EntityTooLarge", "region", "endpoint", "sse"}
Results == {again, Done, "EIO", "EFBIG", "EREMOTE", "ENAMETOOLONG", "EPERM", "ENOENT", "ENOTSUP"}
Frame(ks) ==
  [type : Types, opts : Options, hdrs : SUBSET Headers, infile : BOOLEAN, auth : BOOLEAN,
   pc : {"sign", "send", "done", "over"}, tries : 0 .. Retries - 1, pos : 0 .. Size, length : 0 .. Size,
   first : {<<>>} \cup {<<m>> : m \in Messages}, keys : ks, code : Int, error : Errors, result : Results,
   key : Nat, loop : Int]
Stores == [times : 0 .. 2, whole : BOOLEAN, file : [0 .. Size - 1 -> {"old", "right", "wrong"}]]
Creds(c) ==
  [passwd : {c.passwd}, profile : {c.profile}, lib : {c.lib}, libopts : {c.libopts}, role : {c.role},
   ibm : BOOLEAN, session : BOOLEAN, ecs : BOOLEAN, loadrole : BOOLEAN, imds : Nat, fields : Nat, builtin : BOOLEAN,
   id : {c.id}, secret : {c.secret}, token : {c.token}, expire : Nat]

SetupShape(m) ==
  [args : Seq([name : OptionNames, value : STRING]), machine : {m}, jobs : [Workers -> SUBSET Jobs],
   host : {"default", "own", "regional"}, region : BOOLEAN, sig : {"V2", "V4", "V2_OR_V4"}, nosse : BOOLEAN]

StateTypes ==
  /\ start \in {"options", "role", "cred", "check", "mounted", "exited"}
  /\ tokenLock \in Threads \cup {None} /\ apiToken \in BOOLEAN /\ bundle \in BOOLEAN
  /\ curl \in [Threads -> {"OK", "BAD"}] /\ now \in 0 .. MaxTime
  /\ jobs \in [Workers -> 0 .. MaxJobs] /\ store \in [Threads -> Stores]
  /\ setup \in SetupShape(setup.machine)

(* Keys of an external library are not IBM's: after the checks a library goes without builtin options. *)
CredInv ==
  /\ cred \in Creds(cred)
  /\ cred.ibm => cred.builtin
  /\ start \notin {"options", "exited"} => cred.lib = None \/ ~cred.builtin

(* RemakeHandle makes the options o of the first attempt again.  IBM's keys are asked for with a *)
(* GET when no secret is known.                                                                  *)
Bare(f) == f.type = "IAMCRED" /\ cred.ibm /\ cred.secret = None
Restricted(o) == Opts(o.verb, o.body, o.into)
MadeAgain(f, o) == f.type \in {"UNSET", "CRED"} \/ Bare(f) \/ Restricted(o) = RemadeOpts(f.type, f)

(* Before the first attempt has ended nothing was sent; a later attempt has the method, the headers and *)
(* the length of the first, and the signature once it is signed.                                        *)
FirstAttempt(f) ==
  /\ f.tries = 0 /\ MadeAgain(f, f.opts)
  /\ "authorization" \in f.hdrs <=> (f.pc = "send" /\ f.auth)
LaterAttempt(f) ==
  /\ f.type \notin {"UNSET", "CRED"}
  /\ MadeAgain(f, f.first[1].opts) /\ f.opts = RemadeOpts(f.type, f)
  /\ f.first[1].from = 0 /\ f.first[1].length = Size
  /\ "authorization" \in f.first[1].hdrs <=> f.auth
  /\ f.hdrs = f.first[1].hdrs \ (IF f.pc = "sign" THEN {"authorization", "basic"} ELSE {"basic"})

(* The requests whose answer may say in its body that they failed. *)
Judged == {"PUT", "PUTHEAD", "PREMULTIPOST", "UPLOADMULTIPOST", "COPYMULTIPOST", "COMPLETEMULTIPOST"}

(* A request on its way: an attempt that is signed or sent begins at the start and announces the whole, *)
(* only the builders whose answers are looked into see an error with a success, and they map it.        *)
FrameInv(f) ==
  /\ f \in Frame({f.keys})
  /\ f.pc \in {"sign", "send"} =>
       /\ f.pos = 0 /\ f.length = Size /\ f.code = NOTSET
       /\ IF f.first = <<>> THEN FirstAttempt(f) ELSE LaterAttempt(f)
  /\ f.type = "CRED" => f.auth /\ f.pc # "send"
  /\ f.loop # -1 => f.type \in {"HEAD", "GET", "COPYMULTIPOST"}
  /\ f.error # None => f.code \notin 200 .. 299 \/ f.type \in Judged
  /\ f.pc = "over" /\ f.result = Done /\ f.code \in 200 .. 299 =>
       f.error = None \/ f.type \in {"COPYMULTIPOST", "COMPLETEMULTIPOST"}

(* An answer without an error is the truth. *)
DoneAtS3(t, f) ==
  IF f.type = "GET" THEN \A i \in DOMAIN store[t].file : store[t].file[i] = "right"
  ELSE store[t].times > 0 /\ store[t].whole
Answer(t, f) ==
  /\ f.auth /\ f.type # "CRED" /\ f.code \in 200 .. 299 /\ f.error = None => DoneAtS3(t, f)

(* A stack holds nothing, one request, or a request to be signed with a token request above it, and *)
(* the thread of the latter, and no other, holds token_lock.                                        *)
One(t, f) ==
  /\ stack[t] = <<f>> /\ FrameInv(f) /\ Answer(t, f) /\ tokenLock # t
  /\ f.type # "IAMCRED"
Two(t, f, g) ==
  /\ stack[t] = <<f, g>> /\ FrameInv(f) /\ FrameInv(g) /\ tokenLock = t
  /\ f.pc = "sign" /\ f.auth /\ f.type # "IAMCRED"
  /\ ~g.auth /\ g.type \in {"UNSET", "IAMCRED"} /\ g.pc # "over" /\ (g.type = "UNSET" => ~cred.ibm)

StackInv(t) ==
  \/ stack[t] = <<>> /\ tokenLock # t
  \/ \E f : One(t, f)
  \/ \E f, g : Two(t, f, g)

(* The main thread has requests before the mount, the workers after it. *)
PhaseInv ==
  /\ stack[Main] # <<>> => start \in {"role", "cred", "check"}
  /\ \A w \in Workers : stack[w] # <<>> => start = "mounted"

StacksInv == DOMAIN stack = Threads /\ \A t \in Threads : StackInv(t)

IInv == StateTypes /\ CredInv /\ PhaseInv /\ StacksInv

------------------------------------------------------------------------------
(* The headers of server-side encryption are headers, and none of them is the signature. *)
LEMMA SseHeads == \A copy \in BOOLEAN : AddSse(SseType, copy) \subseteq Headers /\ "authorization" \notin AddSse(SseType, copy)
<1>1. CASE SseType = "DISABLE" BY <1>1 DEF AddSse, Headers
<1>2. CASE SseType = "S3" BY <1>2 DEF AddSse, Headers
<1>3. CASE SseType = "C" BY <1>3 DEF AddSse, Headers
<1>4. CASE SseType = "KMS" BY <1>4 DEF AddSse, Headers
<1> QED BY <1>1, <1>2, <1>3, <1>4, RequestAssumption DEF RequestAssumption

(* So are those of an object's metadata; the key of SSE-C is one header. *)
LEMMA MetaHeads ==
  /\ Meta \subseteq Headers /\ "authorization" \notin Meta
  /\ SseC \subseteq {"sse-c"} /\ AddSse("C", FALSE) = {"sse-c"}
<1>1. SseC \subseteq {"sse-c"} BY DEF SseC, AddSse
<1>2. Meta = {"meta", "acl", "storage-class", "ahbe"} \cup AddSse(SseType, FALSE) BY DEF Meta
<1>3. AddSse("C", FALSE) = {"sse-c"} BY DEF AddSse
<1> QED BY SseHeads, <1>1, <1>2, <1>3 DEF Headers

(* Options are typed by what they are made of. *)
LEMMA OptsType ==
  ASSUME NEW v \in Verbs, NEW b \in Bodies, NEW i \in SUBSET Sinks
  PROVE  Opts(v, b, i) \in Options
  BY DEF Opts, Options

(* What Opts is made of, and that it does not lift the restriction of CURLOPT_UNRESTRICTED_AUTH. *)
LEMMA OptsFields ==
  ASSUME NEW v, NEW b, NEW i
  PROVE  /\ Opts(v, b, i).verb = v /\ Opts(v, b, i).body = b /\ Opts(v, b, i).into = i
         /\ Restricted(Opts(v, b, i)) = Opts(v, b, i)
  BY DEF Opts, Restricted

(* Options with the same fields are the same. *)
LEMMA OptionsEqual ==
  ASSUME NEW p \in Options, NEW q \in Options,
         p.verb = q.verb, p.body = q.body, p.into = q.into, p.unrestricted = q.unrestricted
  PROVE  p = q
  BY DEF Options

(* Opts(p.verb, p.body, p.into) is p without CURLOPT_UNRESTRICTED_AUTH. *)
LEMMA RestrictedIsExcept ==
  ASSUME NEW p \in Options
  PROVE  [p EXCEPT !.unrestricted = FALSE] = Restricted(p) /\ Restricted(p) \in Options
<1> DEFINE q == [p EXCEPT !.unrestricted = FALSE]
           r == Opts(p.verb, p.body, p.into)
<1>1. q \in Options /\ q.verb = p.verb /\ q.body = p.body /\ q.into = p.into /\ q.unrestricted = FALSE
  BY DEF Options
<1>2. p.verb \in Verbs /\ p.body \in Bodies /\ p.into \in SUBSET Sinks BY DEF Options
<1>3. r \in Options BY OptsType, <1>2, Zenon
<1>4. r.verb = p.verb /\ r.body = p.body /\ r.into = p.into /\ r.unrestricted = FALSE BY DEF Opts
<1> HIDE DEF q, r
<1>5. q.verb = r.verb /\ q.body = r.body /\ q.into = r.into BY <1>1, <1>4
<1>6. q.unrestricted = r.unrestricted BY <1>1, <1>4
<1>7. q = r BY <1>1, <1>3, <1>5, <1>6, OptionsEqual
<1> QED BY <1>3, <1>7 DEF q, r, Restricted

(* What RemakeHandle sets, type by type. *)
LEMMA Remade ==
  ASSUME NEW f
  PROVE  /\ RemadeOpts("DELETE", f) = Opts("DELETE", "none", {})
         /\ RemadeOpts("ABORTMULTIUPLOAD", f) = Opts("DELETE", "none", {})
         /\ RemadeOpts("HEAD", f) = Opts("HEAD", "none", {"headers"})
         /\ RemadeOpts("PUTHEAD", f) = Opts("PUT", "empty", {"body"})
         /\ RemadeOpts("PUT", f) = Opts("PUT", IF f.infile THEN "file" ELSE "empty", {"body"})
         /\ RemadeOpts("GET", f) = Opts("GET", "none", {"file"})
         /\ RemadeOpts("CHKBUCKET", f) = Opts("GET", "none", {"body"})
         /\ RemadeOpts("LISTBUCKET", f) = Opts("GET", "none", {"body"})
         /\ RemadeOpts("MULTILIST", f) = Opts("GET", "none", {"body"})
         /\ RemadeOpts("IAMROLE", f) = Opts("GET", "none", {"body"})
         /\ RemadeOpts("PREMULTIPOST", f) = Opts("POST", "empty", {"body"})
         /\ RemadeOpts("COMPLETEMULTIPOST", f) = Opts("POST", "post", {"body"})
         /\ RemadeOpts("UPLOADMULTIPOST", f) = Opts("PUT", "part", {"body", "headers"})
         /\ RemadeOpts("COPYMULTIPOST", f) = Opts("PUT", "empty", {"body", "headdata"})
         /\ RemadeOpts("IAMCRED", f) = IF cred.ibm THEN Opts("POST", "post", {"body"})
                                       ELSE Opts("GET", "none", {"body"})
  BY DEF RemadeOpts

(* RemakeHandle sets typed options for every type it knows. *)
LEMMA RemadeType ==
  ASSUME NEW f, f.type \in Types \ {"UNSET", "CRED"}
  PROVE  RemadeOpts(f.type, f) \in Options
<1>1. \A v \in Verbs, b \in Bodies, i \in SUBSET Sinks : Opts(v, b, i) \in Options BY OptsType
<1>2. /\ Opts("DELETE", "none", {}) \in Options /\ Opts("HEAD", "none", {"headers"}) \in Options
      /\ Opts("PUT", "empty", {"body"}) \in Options /\ Opts("PUT", "file", {"body"}) \in Options
      /\ Opts("GET", "none", {"file"}) \in Options /\ Opts("GET", "none", {"body"}) \in Options
      /\ Opts("POST", "empty", {"body"}) \in Options /\ Opts("POST", "post", {"body"}) \in Options
      /\ Opts("PUT", "part", {"body", "headers"}) \in Options
      /\ Opts("PUT", "empty", {"body", "headdata"}) \in Options
  BY <1>1 DEF Verbs, Bodies, Sinks
<1>3. RemadeOpts("PUT", f) \in Options
  <2>1. CASE f.infile BY <2>1, <1>2, Remade
  <2>2. CASE ~f.infile BY <2>2, <1>2, Remade
  <2> QED BY <2>1, <2>2
<1>4. RemadeOpts("IAMCRED", f) \in Options
  <2>1. CASE cred.ibm BY <2>1, <1>2, Remade
  <2>2. CASE ~cred.ibm BY <2>2, <1>2, Remade
  <2> QED BY <2>1, <2>2
<1>5. \A y \in Types \ {"UNSET", "CRED"} : RemadeOpts(y, f) \in Options
  BY <1>2, <1>3, <1>4, Remade DEF Types
<1> QED BY <1>5

(* A request that RemakeHandle can make again.  IBM's keys without a secret are the exception.  *)
Sound(b) ==
  /\ b.type \in Types /\ b.opts \in Options /\ b.hdrs \subseteq Headers /\ "authorization" \notin b.hdrs
  /\ \/ b.type \in {"UNSET", "CRED"}
     \/ b.type = "IAMCRED" /\ cred.ibm /\ cred.secret = None
     \/ Restricted(b.opts) = RemadeOpts(b.type, [infile |-> b.opts.body = "file"])

(* The options that occur. *)
LEMMA OptsTyped ==
  /\ Opts("DELETE", "none", {}) \in Options /\ Opts("HEAD", "none", {"headers"}) \in Options
  /\ Opts("PUT", "empty", {"body"}) \in Options /\ Opts("PUT", "file", {"body"}) \in Options
  /\ Opts("GET", "none", {"file"}) \in Options /\ Opts("GET", "none", {"body"}) \in Options
  /\ Opts("POST", "empty", {"body"}) \in Options /\ Opts("POST", "post", {"body"}) \in Options
  /\ Opts("PUT", "part", {"body", "headers"}) \in Options
  /\ Opts("PUT", "empty", {"body", "headdata"}) \in Options
  /\ Opts("GET", "none", {}) \in Options
<1>1. \A v \in Verbs, b \in Bodies, i \in SUBSET Sinks : Opts(v, b, i) \in Options BY OptsType
<1> QED BY <1>1 DEF Verbs, Bodies, Sinks

(* What a builder puts together. *)
LEMMA BuiltFields == ASSUME NEW y, NEW o, NEW h PROVE Built(y, o, h).type = y /\ Built(y, o, h).opts = o /\ Built(y, o, h).hdrs = h
  BY DEF Built

(* What a builder must satisfy for its request to be made again. *)
LEMMA SoundBuilt ==
  ASSUME NEW y \in Types, NEW o \in Options, NEW h \in SUBSET Headers, "authorization" \notin h,
         \/ y \in {"UNSET", "CRED"}
         \/ y = "IAMCRED" /\ cred.ibm /\ cred.secret = None
         \/ Restricted(o) = RemadeOpts(y, [infile |-> o.body = "file"])
  PROVE  Sound(Built(y, o, h))
  BY BuiltFields DEF Sound

(* The options of every builder but PutRequest's, CheckBucket's and those of token requests are what *)
(* RemakeHandle sets for its type.                                                                   *)
LEMMA BuildersSound ==
  /\ Sound(DeleteRequest)
  /\ \A k \in Nat : Sound(PreHeadRequest(k))
  /\ \A c \in BOOLEAN : Sound(PutHeadRequest(c))
  /\ Sound(PreGetObjectRequest)
  /\ Sound(ListBucketRequest)
  /\ Sound(PreMultipartUploadRequest)
  /\ Sound(MultipartUploadComplete)
  /\ Sound(ContentPart)
  /\ Sound(CopyPart)
  /\ Sound(MultipartListRequest)
  /\ Sound(AbortMultipartUpload)
  /\ \A c \in BOOLEAN : Sound(GetIAMRoleFromMetaData(c))
<1> USE DEF Types, Headers
<1>1. Sound(DeleteRequest)
  <2> DEFINE o == Opts("DELETE", "none", {})
             h == {}
  <2>1. Restricted(o) = RemadeOpts("DELETE", [infile |-> o.body = "file"]) /\ o \in Options
    BY OptsFields, OptsTyped, Remade
  <2>2. h \in SUBSET Headers /\ "authorization" \notin h
    BY MetaHeads
  <2>3. DeleteRequest = Built("DELETE", o, h) BY DEF DeleteRequest
  <2> HIDE DEF o, h
  <2> QED BY <2>1, <2>2, <2>3, SoundBuilt
<1>2. \A k \in Nat : Sound(PreHeadRequest(k))
  <2> DEFINE o == Opts("HEAD", "none", {"headers"})
             h(k) == IF k = 0 THEN {} ELSE AddSse("C", FALSE)
  <2>1. Restricted(o) = RemadeOpts("HEAD", [infile |-> o.body = "file"]) /\ o \in Options
    BY OptsFields, OptsTyped, Remade
  <2>2. \A k \in Nat : h(k) \in SUBSET Headers /\ "authorization" \notin h(k)
    BY MetaHeads
  <2>3. \A k \in Nat : PreHeadRequest(k) = Built("HEAD", o, h(k)) BY DEF PreHeadRequest
  <2> HIDE DEF o, h
  <2> QED BY <2>1, <2>2, <2>3, SoundBuilt
<1>3. \A c \in BOOLEAN : Sound(PutHeadRequest(c))
  <2> DEFINE o == Opts("PUT", "empty", {"body"})
             h(c) == Meta \cup {"content-type"} \cup (IF c THEN {"copy-source"} ELSE {})
  <2>1. Restricted(o) = RemadeOpts("PUTHEAD", [infile |-> o.body = "file"]) /\ o \in Options
    BY OptsFields, OptsTyped, Remade
  <2>2. \A c \in BOOLEAN : h(c) \in SUBSET Headers /\ "authorization" \notin h(c)
    BY MetaHeads
  <2>3. \A c \in BOOLEAN : PutHeadRequest(c) = Built("PUTHEAD", o, h(c)) BY DEF PutHeadRequest
  <2> HIDE DEF o, h
  <2> QED BY <2>1, <2>2, <2>3, SoundBuilt
<1>4. Sound(PreGetObjectRequest)
  <2> DEFINE o == Opts("GET", "none", {"file"})
             h == {"range"} \cup SseC
  <2>1. Restricted(o) = RemadeOpts("GET", [infile |-> o.body = "file"]) /\ o \in Options
    BY OptsFields, OptsTyped, Remade
  <2>2. h \in SUBSET Headers /\ "authorization" \notin h
    BY MetaHeads
  <2>3. PreGetObjectRequest = Built("GET", o, h) BY DEF PreGetObjectRequest
  <2> HIDE DEF o, h
  <2> QED BY <2>1, <2>2, <2>3, SoundBuilt
<1>5. Sound(ListBucketRequest)
  <2> DEFINE o == Opts("GET", "none", {"body"})
             h == {}
  <2>1. Restricted(o) = RemadeOpts("LISTBUCKET", [infile |-> o.body = "file"]) /\ o \in Options
    BY OptsFields, OptsTyped, Remade
  <2>2. h \in SUBSET Headers /\ "authorization" \notin h
    BY MetaHeads
  <2>3. ListBucketRequest = Built("LISTBUCKET", o, h) BY DEF ListBucketRequest
  <2> HIDE DEF o, h
  <2> QED BY <2>1, <2>2, <2>3, SoundBuilt
<1>6. Sound(PreMultipartUploadRequest)
  <2> DEFINE o == Opts("POST", "empty", {"body"})
             h == Meta \cup {"content-type"}
  <2>1. Restricted(o) = RemadeOpts("PREMULTIPOST", [infile |-> o.body = "file"]) /\ o \in Options
    BY OptsFields, OptsTyped, Remade
  <2>2. h \in SUBSET Headers /\ "authorization" \notin h
    BY MetaHeads
  <2>3. PreMultipartUploadRequest = Built("PREMULTIPOST", o, h) BY DEF PreMultipartUploadRequest
  <2> HIDE DEF o, h
  <2> QED BY <2>1, <2>2, <2>3, SoundBuilt
<1>7. Sound(MultipartUploadComplete)
  <2> DEFINE o == Opts("POST", "post", {"body"})
             h == {"content-type"} \cup SseC
  <2>1. Restricted(o) = RemadeOpts("COMPLETEMULTIPOST", [infile |-> o.body = "file"]) /\ o \in Options
    BY OptsFields, OptsTyped, Remade
  <2>2. h \in SUBSET Headers /\ "authorization" \notin h
    BY MetaHeads
  <2>3. MultipartUploadComplete = Built("COMPLETEMULTIPOST", o, h) BY DEF MultipartUploadComplete
  <2> HIDE DEF o, h
  <2> QED BY <2>1, <2>2, <2>3, SoundBuilt
<1>8. Sound(ContentPart)
  <2> DEFINE o == Opts("PUT", "part", {"body", "headers"})
             h == {"content-md5"} \cup SseC
  <2>1. Restricted(o) = RemadeOpts("UPLOADMULTIPOST", [infile |-> o.body = "file"]) /\ o \in Options
    BY OptsFields, OptsTyped, Remade
  <2>2. h \in SUBSET Headers /\ "authorization" \notin h
    BY MetaHeads
  <2>3. ContentPart = Built("UPLOADMULTIPOST", o, h) BY DEF ContentPart
  <2> HIDE DEF o, h
  <2> QED BY <2>1, <2>2, <2>3, SoundBuilt
<1>9. Sound(CopyPart)
  <2> DEFINE o == Opts("PUT", "empty", {"body", "headdata"})
             h == {"content-type", "copy-source", "copy-range"} \cup SseC
  <2>1. Restricted(o) = RemadeOpts("COPYMULTIPOST", [infile |-> o.body = "file"]) /\ o \in Options
    BY OptsFields, OptsTyped, Remade
  <2>2. h \in SUBSET Headers /\ "authorization" \notin h
    BY MetaHeads
  <2>3. CopyPart = Built("COPYMULTIPOST", o, h) BY DEF CopyPart
  <2> HIDE DEF o, h
  <2> QED BY <2>1, <2>2, <2>3, SoundBuilt
<1>10. Sound(MultipartListRequest)
  <2> DEFINE o == Opts("GET", "none", {"body"})
             h == {}
  <2>1. Restricted(o) = RemadeOpts("MULTILIST", [infile |-> o.body = "file"]) /\ o \in Options
    BY OptsFields, OptsTyped, Remade
  <2>2. h \in SUBSET Headers /\ "authorization" \notin h
    BY MetaHeads
  <2>3. MultipartListRequest = Built("MULTILIST", o, h) BY DEF MultipartListRequest
  <2> HIDE DEF o, h
  <2> QED BY <2>1, <2>2, <2>3, SoundBuilt
<1>11. Sound(AbortMultipartUpload)
  <2> DEFINE o == Opts("DELETE", "none", {})
             h == {}
  <2>1. Restricted(o) = RemadeOpts("ABORTMULTIUPLOAD", [infile |-> o.body = "file"]) /\ o \in Options
    BY OptsFields, OptsTyped, Remade
  <2>2. h \in SUBSET Headers /\ "authorization" \notin h
    BY MetaHeads
  <2>3. AbortMultipartUpload = Built("ABORTMULTIUPLOAD", o, h) BY DEF AbortMultipartUpload
  <2> HIDE DEF o, h
  <2> QED BY <2>1, <2>2, <2>3, SoundBuilt
<1>12. \A c \in BOOLEAN : Sound(GetIAMRoleFromMetaData(c))
  <2> DEFINE o == Opts("GET", "none", {"body"})
             h(c) == IF c THEN {"api-token"} ELSE {}
  <2>1. Restricted(o) = RemadeOpts("IAMROLE", [infile |-> o.body = "file"]) /\ o \in Options
    BY OptsFields, OptsTyped, Remade
  <2>2. \A c \in BOOLEAN : h(c) \in SUBSET Headers /\ "authorization" \notin h(c)
    BY MetaHeads
  <2>3. \A c \in BOOLEAN : GetIAMRoleFromMetaData(c) = Built("IAMROLE", o, h(c)) BY DEF GetIAMRoleFromMetaData
  <2> HIDE DEF o, h
  <2> QED BY <2>1, <2>2, <2>3, SoundBuilt
<1> QED BY <1>1, <1>2, <1>3, <1>4, <1>5, <1>6, <1>7, <1>8, <1>9, <1>10, <1>11, <1>12

(* A PUT of a file reads it again, an empty one stays empty. *)
LEMMA PutSound == \A fd \in BOOLEAN : Sound(PutRequest(fd))
<1> DEFINE h == Meta \cup {"content-type", "content-md5"}
           o == Opts("PUT", "file", {"body"})
           e == Opts("PUT", "empty", {"body"})
<1>1. Restricted(o) = RemadeOpts("PUT", [infile |-> o.body = "file"]) /\ o \in Options
  <2> DEFINE f == [infile |-> o.body = "file"]
  <2>0. o.body = "file" BY OptsFields
  <2>1. f.infile = TRUE BY <2>0
  <2> HIDE DEF f
  <2>2. RemadeOpts("PUT", f) = Opts("PUT", IF f.infile THEN "file" ELSE "empty", {"body"}) BY Remade
  <2>3. RemadeOpts("PUT", f) = o BY <2>1, <2>2
  <2> QED BY <2>3, OptsFields, OptsTyped DEF f
<1>2. Restricted(e) = RemadeOpts("PUT", [infile |-> e.body = "file"]) /\ e \in Options
  <2> DEFINE f == [infile |-> e.body = "file"]
  <2>0. e.body = "empty" BY OptsFields
  <2>1. f.infile = FALSE BY <2>0
  <2> HIDE DEF f
  <2>2. RemadeOpts("PUT", f) = Opts("PUT", IF f.infile THEN "file" ELSE "empty", {"body"}) BY Remade
  <2>3. RemadeOpts("PUT", f) = e BY <2>1, <2>2
  <2> QED BY <2>3, OptsFields, OptsTyped DEF f
<1>3. h \in SUBSET Headers /\ "authorization" \notin h BY MetaHeads DEF Headers
<1>4. PutRequest(TRUE) = Built("PUT", o, h) /\ PutRequest(FALSE) = Built("PUT", e, h) BY DEF PutRequest
<1>5. "PUT" \in Types BY DEF Types
<1> HIDE DEF h, o, e
<1>6. Sound(PutRequest(TRUE)) BY <1>1, <1>3, <1>4, <1>5, SoundBuilt
<1>7. Sound(PutRequest(FALSE)) BY <1>2, <1>3, <1>4, <1>5, SoundBuilt
<1> QED BY <1>6, <1>7

(* The bucket check differs from what RemakeHandle sets in CURLOPT_UNRESTRICTED_AUTH alone. *)
LEMMA CheckSound == \A nosse \in BOOLEAN : Sound(CheckBucket(nosse))
<1> DEFINE p == Opts("GET", "none", {"body"})
           o == [p EXCEPT !.unrestricted = TRUE]
           h(nosse) == IF nosse THEN {} ELSE AddSse(SseType, FALSE)
<1>1. p \in Options /\ p.verb = "GET" /\ p.body = "none" /\ p.into = {"body"} BY OptsTyped, OptsFields
<1> HIDE DEF p
<1>2. o \in Options /\ o.verb = "GET" /\ o.body = "none" /\ o.into = {"body"} BY <1>1 DEF Options
<1> HIDE DEF o
<1>3. Restricted(o) = RemadeOpts("CHKBUCKET", [infile |-> o.body = "file"]) BY <1>2, Remade DEF Restricted
<1>4. \A nosse \in BOOLEAN : h(nosse) \in SUBSET Headers /\ "authorization" \notin h(nosse) BY SseHeads
<1>5. \A nosse \in BOOLEAN : CheckBucket(nosse) = Built("CHKBUCKET", o, h(nosse)) BY DEF CheckBucket, o, p
<1> HIDE DEF h
<1>6. "CHKBUCKET" \in Types BY DEF Types
<1> QED BY <1>2, <1>3, <1>4, <1>5, <1>6, SoundBuilt

(* IBM's service is asked with a POST when a secret is known. *)
LEMMA KeyRequestsSound ==
  ASSUME NEW k \in BOOLEAN, NEW ibm \in BOOLEAN,
         cred.ibm \in BOOLEAN, ibm <=> cred.ibm /\ cred.secret # None
  PROVE  Sound(GetIAMCredentials(k, ibm))
<1> DEFINE o == IF ibm THEN Opts("POST", "post", {"body"}) ELSE Opts("GET", "none", {"body"})
           h == (IF k THEN {"api-token"} ELSE {}) \cup (IF ibm THEN {"basic"} ELSE {})
<1>1. h \in SUBSET Headers /\ "authorization" \notin h BY DEF Headers
<1>2. o \in Options BY OptsTyped
<1>3. GetIAMCredentials(k, ibm) = Built("IAMCRED", o, h) BY DEF GetIAMCredentials
<1>4. (cred.ibm /\ cred.secret = None) \/ Restricted(o) = RemadeOpts("IAMCRED", [infile |-> o.body = "file"])
  BY OptsFields, Remade
<1>5. "IAMCRED" \in Types BY DEF Types
<1> HIDE DEF o, h
<1> QED BY <1>1, <1>2, <1>3, <1>4, <1>5, SoundBuilt

(* The request for the API token is never made again. *)
LEMMA TokenSound == Sound(GetIAMv2ApiToken)
<1> DEFINE o == Opts("PUT", "empty", {"body"})
           h == {"token-ttl"}
<1>1. h \in SUBSET Headers /\ "authorization" \notin h /\ o \in Options /\ "UNSET" \in Types
  BY OptsTyped DEF Headers, Types
<1>2. GetIAMv2ApiToken = Built("UNSET", o, h) BY DEF GetIAMv2ApiToken
<1> HIDE DEF o, h
<1> QED BY <1>1, <1>2, SoundBuilt

(* Neither is the refresh alone, which sends nothing. *)
LEMMA CredSound == Sound(Built("CRED", Opts("GET", "none", {}), {}))
<1> DEFINE o == Opts("GET", "none", {})
<1>1. o \in Options /\ "CRED" \in Types BY OptsTyped DEF Types
<1> HIDE DEF o
<1>2. Sound(Built("CRED", o, {})) BY <1>1, SoundBuilt
<1> QED BY <1>2 DEF o

(* Every request that a worker can be asked for can be made again; only three types loop. *)
LEMMA JobsSound ==
  ASSUME NEW j \in Jobs
  PROVE  Sound(j.built) /\ j.loop \in Int /\ (j.loop # -1 => j.built.type \in {"HEAD", "GET", "COPYMULTIPOST"})
         /\ j.built.type # "IAMCRED"
<1> DEFINE Plain == {DeleteRequest, PreHeadRequest(0), PutHeadRequest(TRUE), PutHeadRequest(FALSE), PutRequest(TRUE),
                      PutRequest(FALSE), PreGetObjectRequest, ListBucketRequest, PreMultipartUploadRequest,
                      MultipartUploadComplete, ContentPart, CopyPart, MultipartListRequest, AbortMultipartUpload}
           Loops == {PreGetObjectRequest, CopyPart, PreHeadRequest(0)}
<1>1. Jobs = [built : Plain, loop : {-1}] \cup [built : Loops, loop : {0}] BY DEF Jobs
<1>2. \A b \in Plain : Sound(b) BY BuildersSound, PutSound
<1>3. \A b \in Plain : b.type # "IAMCRED"
  BY BuiltFields DEF DeleteRequest, PreHeadRequest, PutHeadRequest, PutRequest, PreGetObjectRequest, ListBucketRequest,
     PreMultipartUploadRequest, MultipartUploadComplete, ContentPart, CopyPart, MultipartListRequest, AbortMultipartUpload
<1>4. Loops \subseteq Plain OBVIOUS
<1>5. \A b \in Loops : b.type \in {"HEAD", "GET", "COPYMULTIPOST"}
  BY BuiltFields DEF PreGetObjectRequest, PreHeadRequest, CopyPart
<1> HIDE DEF Plain, Loops
<1>6. (j.built \in Plain /\ j.loop = -1) \/ (j.built \in Loops /\ j.loop = 0) BY <1>1
<1> QED BY <1>2, <1>3, <1>4, <1>5, <1>6

(* Of a request, RemakeHandle looks at its type and at whether it sends a file. *)
LEMMA RemadeFor ==
  ASSUME NEW y \in Types \ {"UNSET", "CRED"}, NEW f, NEW g, f.infile = g.infile
  PROVE  RemadeOpts(y, f) = RemadeOpts(y, g)
<1>1. CASE y = "PUT" BY <1>1, Remade
<1>2. CASE y # "PUT" BY <1>2, Remade DEF Types
<1> QED BY <1>1, <1>2

(* A new request. *)
LEMMA NewRequest ==
  ASSUME NEW b, Sound(b), NEW auth \in BOOLEAN, NEW loop \in Int,
         loop # -1 => b.type \in {"HEAD", "GET", "COPYMULTIPOST"}, b.type = "CRED" => auth
  PROVE  LET r == Request(b, auth, loop)
         IN /\ FrameInv(r) /\ r.type = b.type /\ r.auth = auth /\ r.pc = "sign" /\ r.loop = loop
            /\ r.code = NOTSET /\ r.error = None /\ r.first = <<>>
<1> DEFINE r == Request(b, auth, loop)
<1>1. /\ r.type = b.type /\ r.opts = b.opts /\ r.hdrs = b.hdrs /\ r.infile = (b.opts.body = "file") /\ r.auth = auth
      /\ r.pc = "sign" /\ r.tries = 0 /\ r.pos = 0 /\ r.length = Size /\ r.first = <<>> /\ r.keys = NoKeys
      /\ r.code = NOTSET /\ r.error = None /\ r.result = again /\ r.key = 0 /\ r.loop = loop
  BY DEF Request
<1>2. r \in Frame({NoKeys})
  BY RequestAssumption DEF Request, Frame, Sound, RequestAssumption, NOTSET, Results, Errors
<1> HIDE DEF r
<1>3. MadeAgain(r, b.opts)
  <2>1. CASE b.type \in {"UNSET", "CRED"} BY <2>1, <1>1 DEF MadeAgain
  <2>2. CASE b.type = "IAMCRED" /\ cred.ibm /\ cred.secret = None BY <2>2, <1>1 DEF MadeAgain, Bare
  <2>3. CASE b.type \notin {"UNSET", "CRED"} /\ Restricted(b.opts) = RemadeOpts(b.type, [infile |-> b.opts.body = "file"])
    <3> DEFINE g == [infile |-> b.opts.body = "file"]
    <3>1. g.infile = r.infile BY <1>1
    <3>2. b.type \in Types \ {"UNSET", "CRED"} BY <2>3 DEF Sound
    <3> HIDE DEF g
    <3>3. RemadeOpts(b.type, g) = RemadeOpts(b.type, r) BY <3>1, <3>2, RemadeFor
    <3> QED BY <2>3, <3>3, <1>1 DEF MadeAgain, g
  <2> QED BY <2>1, <2>2, <2>3 DEF Sound
<1>4. FirstAttempt(r) BY <1>1, <1>3 DEF FirstAttempt, Sound
<1>5. FrameInv(r) BY <1>1, <1>2, <1>4, RequestAssumption DEF FrameInv, NOTSET
<1> QED BY <1>1, <1>5 DEF r

(* Two requests that agree on these are made again alike. *)
LEMMA MadeAgainFor ==
  ASSUME NEW f, NEW g, NEW o, f.type \in Types, g.type = f.type, g.infile = f.infile, MadeAgain(f, o)
  PROVE  MadeAgain(g, o)
<1>1. f.type \notin {"UNSET", "CRED"} => RemadeOpts(f.type, f) = RemadeOpts(g.type, g) BY RemadeFor
<1> QED BY <1>1 DEF MadeAgain, Bare

(* The end of an attempt with the result in hand. *)
LEMMA FinishedFrame ==
  ASSUME NEW f, f \in Frame({f.keys}), NEW code \in Int, NEW error \in Errors, NEW result \in Results,
         f.loop # -1 => f.type \in {"HEAD", "GET", "COPYMULTIPOST"}, f.type # "CRED",
         error # None => code \notin 200 .. 299 \/ f.type \in Judged
  PROVE  LET a == Finished(f, code, error, result)
         IN /\ FrameInv(a) /\ a.type = f.type /\ a.auth = f.auth /\ a.loop = f.loop /\ a.keys = f.keys
            /\ a.pc = "done" /\ a.code = code /\ a.error = error /\ a.result = result
<1> DEFINE a == Finished(f, code, error, result)
<1>1. a \in Frame({f.keys}) BY DEF Finished, Frame
<1>2. /\ a.type = f.type /\ a.auth = f.auth /\ a.loop = f.loop /\ a.keys = f.keys
      /\ a.pc = "done" /\ a.code = code /\ a.error = error /\ a.result = result
  BY DEF Finished, Frame
<1> HIDE DEF a
<1>3. FrameInv(a) BY <1>1, <1>2 DEF FrameInv
<1> QED BY <1>2, <1>3 DEF a

(* What an attempt sends. *)
LEMMA MessageType ==
  ASSUME NEW f, f \in Frame({f.keys})
  PROVE  /\ Message(f) \in Messages /\ Message(f).opts = f.opts /\ Message(f).hdrs = f.hdrs
         /\ Message(f).from = f.pos /\ Message(f).length = f.length
  BY DEF Message, Frame, Messages

(* The types of a request's fields. *)
LEMMA FrameFields ==
  ASSUME NEW f, f \in Frame({f.keys})
  PROVE  /\ f.type \in Types /\ f.opts \in Options /\ f.hdrs \subseteq Headers /\ f.infile \in BOOLEAN /\ f.auth \in BOOLEAN
         /\ f.pc \in {"sign", "send", "done", "over"} /\ f.tries \in 0 .. Retries - 1 /\ f.pos \in 0 .. Size
         /\ f.length \in 0 .. Size /\ f.first \in {<<>>} \cup {<<m>> : m \in Messages} /\ f.code \in Int
         /\ f.error \in Errors /\ f.result \in Results /\ f.key \in Nat /\ f.loop \in Int
  BY DEF Frame

(* What the first attempt sent is known before the next one is made. *)
Sent(f) == IF f.first = <<>> THEN <<Message(f)>> ELSE f.first

(* What the first attempt sent begins at the start, and the one under way has its headers. *)
LEMMA SentFirst ==
  ASSUME NEW f, FrameInv(f), f.pc = "send"
  PROVE  \E m \in Messages : /\ Sent(f) = <<m>> /\ m.from = 0 /\ m.length = Size /\ MadeAgain(f, m.opts)
                             /\ "authorization" \in m.hdrs <=> f.auth
                             /\ f.hdrs \ {"basic"} = m.hdrs \ {"basic"}
<1>1. f \in Frame({f.keys}) /\ f.pos = 0 /\ f.length = Size BY DEF FrameInv
<1>2. CASE f.first = <<>>
  <2>1. FirstAttempt(f) BY <1>2 DEF FrameInv
  <2>2. Sent(f) = <<Message(f)>> BY <1>2 DEF Sent
  <2>3. MadeAgain(f, Message(f).opts) BY <2>1, <1>1, MessageType DEF FirstAttempt
  <2>4. "authorization" \in Message(f).hdrs <=> f.auth BY <2>1, <1>1, MessageType DEF FirstAttempt
  <2> QED BY <2>2, <2>3, <2>4, <1>1, MessageType
<1>3. CASE f.first # <<>>
  <2>1. LaterAttempt(f) BY <1>3 DEF FrameInv
  <2>2. PICK m \in Messages : f.first = <<m>> BY <1>1, <1>3, FrameFields
  <2>3. f.first[1] = m /\ Sent(f) = <<m>> BY <2>2, <1>3 DEF Sent
  <2>4. m.from = 0 /\ m.length = Size /\ MadeAgain(f, m.opts) /\ ("authorization" \in m.hdrs <=> f.auth)
    BY <2>1, <2>3 DEF LaterAttempt
  <2>5. f.hdrs = m.hdrs \ {"basic"} BY <2>1, <2>3 DEF LaterAttempt
  <2> QED BY <2>3, <2>4, <2>5
<1> QED BY <1>2, <1>3

(* The next attempt. *)
LEMMA RemadeFrame ==
  ASSUME NEW f, FrameInv(f), f.pc = "send", f.type # "UNSET",
         NEW h, h \in Frame({h.keys}), h.type = f.type, h.hdrs = f.hdrs, h.infile = f.infile, h.auth = f.auth,
         h.tries = f.tries, h.loop = f.loop, h.first = Sent(f), f.tries + 1 # Retries
  PROVE  LET a == RemakeHandle(h)
         IN /\ FrameInv(a) /\ a.type = f.type /\ a.auth = f.auth /\ a.loop = f.loop /\ a.keys = h.keys
            /\ a.pc = "sign" /\ a.code = NOTSET /\ a.error = None
<1> DEFINE a == RemakeHandle(h)
           o == RemadeOpts(h.type, h)
           s == f.hdrs \ {"authorization", "basic"}
<1>1. h.type \in Types /\ h.type # "CRED" /\ h.type # "UNSET" /\ h.loop \in Int /\ h.result \in Results /\ h.tries \in 0 .. Retries - 1
  BY FrameFields DEF FrameInv
<1>2. o \in Options BY <1>1, RemadeType
<1>3. s \in SUBSET Headers BY FrameFields DEF FrameInv
<1> HIDE DEF o, s
<1>4. f.tries + 1 \in 0 .. Retries - 1 BY <1>1, RequestAssumption DEF RequestAssumption
<1>5. a = [h EXCEPT !.pc = "sign", !.code = NOTSET, !.error = None, !.tries = f.tries + 1, !.hdrs = s,
                    !.pos = 0, !.length = Size, !.opts = o]
  BY DEF RemakeHandle, s, o
<1> HIDE DEF a
<1>6. a \in Frame({h.keys})
  <2>1. 0 \in 0 .. Size /\ Size \in 0 .. Size /\ NOTSET \in Int /\ None \in Errors
    BY RequestAssumption DEF RequestAssumption, NOTSET, Errors
  <2> QED BY <2>1, <1>2, <1>3, <1>4, <1>5 DEF Frame
<1>7. /\ a.type = f.type /\ a.loop = f.loop /\ a.keys = h.keys /\ a.infile = h.infile
      /\ a.pc = "sign" /\ a.code = NOTSET /\ a.error = None /\ a.first = Sent(f) /\ a.opts = o /\ a.hdrs = s
      /\ a.pos = 0 /\ a.length = Size
  BY <1>5 DEF Frame
<1>8. a.auth = f.auth BY <1>5 DEF Frame
<1>9. PICK m \in Messages : /\ Sent(f) = <<m>> /\ m.from = 0 /\ m.length = Size /\ MadeAgain(f, m.opts)
                            /\ "authorization" \in m.hdrs <=> f.auth
                            /\ f.hdrs \ {"basic"} = m.hdrs \ {"basic"}
  BY SentFirst
<1>10. a.first[1] = m /\ a.first # <<>>
  <2>1. Sent(f) = <<m>> BY <1>9
  <2>2. a.first = <<m>> BY <1>7, <2>1
  <2> QED BY <2>2
<1>11. MadeAgain(a, m.opts)
  <2>1. MadeAgain(f, m.opts) BY <1>9
  <2>2. a.type = f.type /\ a.infile = f.infile /\ f.type \in Types BY <1>1, <1>7
  <2> QED BY <2>1, <2>2, MadeAgainFor
<1>12. a.opts = RemadeOpts(a.type, a) BY <1>1, <1>7, RemadeFor DEF o
<1>13. a.hdrs = m.hdrs \ {"authorization", "basic"}
  <2>1. f.hdrs \ {"basic"} = m.hdrs \ {"basic"} BY <1>9
  <2> QED BY <2>1, <1>7 DEF s
<1>14. m.from = 0 /\ m.length = Size /\ ("authorization" \in m.hdrs <=> a.auth) BY <1>8, <1>9
<1>15. LaterAttempt(a) BY <1>1, <1>7, <1>10, <1>11, <1>12, <1>13, <1>14 DEF LaterAttempt
<1>16. FrameInv(a) BY <1>1, <1>6, <1>7, <1>10, <1>15 DEF FrameInv
<1> QED BY <1>7, <1>8, <1>16 DEF a

(* However an attempt ends, the request keeps its shape: finished, or ready for another attempt. *)
LEMMA AttemptedFrame ==
  ASSUME NEW f, FrameInv(f), f.pc = "send",
         NEW h, h \in Frame({h.keys}), h.type = f.type, h.hdrs = f.hdrs, h.infile = f.infile, h.auth = f.auth,
         h.tries = f.tries, h.loop = f.loop, h.first = Sent(f),
         NEW code \in Int, NEW error \in Errors, NEW result \in Results,
         error # None => code \notin 200 .. 299 \/ f.type \in Judged,
         NEW a, a = Attempted(h, code, error, result)
  PROVE  /\ FrameInv(a) /\ a.type = f.type /\ a.auth = f.auth
         /\ \/ a.pc = "done" /\ a.error = error /\ a.code = IF code = NOTSET THEN FATAL ELSE code
            \/ a.pc = "sign" /\ a.error = None /\ a.code = NOTSET
<1> DEFINE last == IF code = NOTSET THEN FATAL ELSE code
<1>1. last \in Int /\ (error # None => last \notin 200 .. 299 \/ f.type \in Judged) BY DEF FATAL
<1>2. h.loop # -1 => h.type \in {"HEAD", "GET", "COPYMULTIPOST"} BY DEF FrameInv
<1>3. h.type # "CRED" BY DEF FrameInv
<1>4. "EIO" \in Results BY DEF Results
<1>5. CASE result # again
  <2>1. a = Finished(h, last, error, result) BY <1>5 DEF Attempted
  <2> HIDE DEF last
  <2>2. /\ FrameInv(a) /\ a.type = h.type /\ a.auth = h.auth /\ a.loop = h.loop
        /\ a.pc = "done" /\ a.code = last /\ a.error = error
    BY <1>1, <1>2, <1>3, <2>1, FinishedFrame
  <2> QED BY <2>2 DEF last
<1>6. CASE result = again /\ (h.type = "UNSET" \/ h.tries + 1 = Retries)
  <2>1. a = Finished(h, last, error, "EIO") BY <1>6 DEF Attempted
  <2> HIDE DEF last
  <2>2. /\ FrameInv(a) /\ a.type = h.type /\ a.auth = h.auth /\ a.loop = h.loop
        /\ a.pc = "done" /\ a.code = last /\ a.error = error
    BY <1>1, <1>2, <1>3, <1>4, <2>1, FinishedFrame
  <2> QED BY <2>2 DEF last
<1>7. CASE result = again /\ h.type # "UNSET" /\ h.tries + 1 # Retries
  <2>1. a = RemakeHandle(h) BY <1>7 DEF Attempted
  <2>2. /\ FrameInv(a) /\ a.type = f.type /\ a.auth = f.auth /\ a.loop = f.loop
        /\ a.pc = "sign" /\ a.code = NOTSET /\ a.error = None
    BY <1>7, <2>1, RemadeFrame
  <2> QED BY <2>2
<1> QED BY <1>5, <1>6, <1>7

(* The handle as curl_easy_perform leaves it: what was sent first is noted, and the position. *)
Moved(f, p)     == [f EXCEPT !.pos = p]
Performed(f, g) == [g EXCEPT !.first = IF @ = <<>> THEN <<Message(f)>> ELSE @]

(* A signed request has the Authorization header of the first attempt again. *)
LEMMA SignedFrame ==
  ASSUME NEW f, FrameInv(f), f.pc = "sign", f.auth, NEW c
  PROVE  LET g == Signed(f, c)
         IN /\ FrameInv(g) /\ g.type = f.type /\ g.auth = f.auth /\ g.loop = f.loop /\ g.code = NOTSET
            /\ g.pc \in {"send", "done"}
<1> DEFINE g == Signed(f, c)
           p == IF f.type = "CRED" THEN "done" ELSE "send"
           r == IF f.type = "CRED" THEN Done ELSE again
           k == KeysFor(c)
           s == f.hdrs \cup {"authorization"}
<1>1. f \in Frame({f.keys}) /\ f.pos = 0 /\ f.length = Size /\ f.code = NOTSET BY DEF FrameInv
<1>2. p \in {"send", "done"} /\ r \in Results /\ s \in SUBSET Headers /\ (f.type = "CRED" <=> p = "done")
  BY <1>1, FrameFields DEF Results, Headers
<1>3. g = [f EXCEPT !.pc = p, !.result = r, !.keys = k, !.hdrs = s] BY DEF Signed
<1> HIDE DEF g, p, r, k, s
<1>4. g \in Frame({k}) BY <1>1, <1>2, <1>3 DEF Frame
<1>5. /\ g.type = f.type /\ g.auth = f.auth /\ g.loop = f.loop /\ g.code = NOTSET /\ g.pc = p /\ g.hdrs = s
      /\ g.keys = k /\ g.infile = f.infile /\ g.first = f.first /\ g.opts = f.opts /\ g.tries = f.tries
      /\ g.pos = 0 /\ g.length = Size /\ g.error = f.error
  BY <1>1, <1>3 DEF Frame
<1>6. "authorization" \in s BY DEF s
<1>7. p = "send" /\ f.first = <<>> => FirstAttempt(g)
  <2> SUFFICES ASSUME p = "send", f.first = <<>> PROVE FirstAttempt(g) OBVIOUS
  <2>1. FirstAttempt(f) BY DEF FrameInv
  <2>2. MadeAgain(g, g.opts) BY <1>1, <1>5, <2>1, MadeAgainFor, FrameFields DEF FirstAttempt
  <2> QED BY <1>5, <1>6, <2>1, <2>2 DEF FirstAttempt
<1>8. p = "send" /\ f.first # <<>> => LaterAttempt(g)
  <2> SUFFICES ASSUME p = "send", f.first # <<>> PROVE LaterAttempt(g) OBVIOUS
  <2>1. LaterAttempt(f) BY DEF FrameInv
  <2>2. f.type \in Types BY <1>1, FrameFields
  <2>3. MadeAgain(g, g.first[1].opts) BY <1>5, <2>1, <2>2, MadeAgainFor DEF LaterAttempt
  <2>4. g.opts = RemadeOpts(g.type, g) BY <1>5, <2>1, <2>2, RemadeFor DEF LaterAttempt
  <2>5. f.hdrs = g.first[1].hdrs \ {"authorization", "basic"} /\ "authorization" \in g.first[1].hdrs
    BY <1>5, <2>1 DEF LaterAttempt
  <2>6. g.hdrs = g.first[1].hdrs \ {"basic"} BY <1>5, <2>5 DEF s
  <2> QED BY <1>5, <2>1, <2>3, <2>4, <2>5, <2>6 DEF LaterAttempt
<1>9. FrameInv(g) BY <1>2, <1>4, <1>5, <1>7, <1>8 DEF FrameInv, NOTSET
<1> QED BY <1>2, <1>5, <1>9 DEF g

(* A token request goes unsigned, the first time and every other. *)
LEMMA UnsignedFrame ==
  ASSUME NEW f, FrameInv(f), f.pc = "sign", ~f.auth
  PROVE  LET g == [f EXCEPT !.pc = "send"]
         IN FrameInv(g) /\ g.type = f.type /\ g.auth = f.auth /\ g.loop = f.loop /\ g.code = NOTSET /\ g.pc = "send"
<1> DEFINE g == [f EXCEPT !.pc = "send"]
<1>1. f \in Frame({f.keys}) /\ f.pos = 0 /\ f.length = Size /\ f.code = NOTSET BY DEF FrameInv
<1>2. g \in Frame({f.keys}) BY <1>1 DEF Frame
<1>3. /\ g.type = f.type /\ g.auth = f.auth /\ g.loop = f.loop /\ g.code = NOTSET /\ g.pc = "send" /\ g.hdrs = f.hdrs
      /\ g.keys = f.keys /\ g.infile = f.infile /\ g.first = f.first /\ g.opts = f.opts /\ g.tries = f.tries
      /\ g.pos = 0 /\ g.length = Size /\ g.error = f.error
  BY <1>1 DEF Frame
<1> HIDE DEF g
<1>4. f.first = <<>> => FirstAttempt(g)
  <2> SUFFICES ASSUME f.first = <<>> PROVE FirstAttempt(g) OBVIOUS
  <2>1. FirstAttempt(f) BY DEF FrameInv
  <2>2. MadeAgain(g, g.opts) BY <1>1, <1>3, <2>1, MadeAgainFor, FrameFields DEF FirstAttempt
  <2> QED BY <1>3, <2>1, <2>2 DEF FirstAttempt
<1>5. f.first # <<>> => LaterAttempt(g)
  <2> SUFFICES ASSUME f.first # <<>> PROVE LaterAttempt(g) OBVIOUS
  <2>1. LaterAttempt(f) BY DEF FrameInv
  <2>2. f.type \in Types BY <1>1, FrameFields
  <2>3. MadeAgain(g, g.first[1].opts) BY <1>3, <2>1, <2>2, MadeAgainFor DEF LaterAttempt
  <2>4. g.opts = RemadeOpts(g.type, g) BY <1>3, <2>1, <2>2, RemadeFor DEF LaterAttempt
  <2>5. f.hdrs = g.first[1].hdrs \ {"authorization", "basic"} /\ "authorization" \notin g.first[1].hdrs
    BY <1>3, <2>1 DEF LaterAttempt
  <2>6. g.hdrs = g.first[1].hdrs \ {"basic"} BY <1>3, <2>5
  <2> QED BY <1>3, <2>1, <2>3, <2>4, <2>5, <2>6 DEF LaterAttempt
<1>6. FrameInv(g) BY <1>2, <1>3, <1>4, <1>5 DEF FrameInv, NOTSET
<1> QED BY <1>3, <1>6 DEF g

(* A request that cannot be signed is finished with nothing sent. *)
LEMMA CannotSignFrame ==
  ASSUME NEW f, FrameInv(f), f.pc = "sign"
  PROVE  LET g == [f EXCEPT !.pc = "done", !.result = "EIO"]
         IN FrameInv(g) /\ g.type = f.type /\ g.auth = f.auth /\ g.loop = f.loop /\ g.code = NOTSET /\ g.pc = "done"
<1> DEFINE g == [f EXCEPT !.pc = "done", !.result = "EIO"]
<1>1. f \in Frame({f.keys}) /\ f.code = NOTSET BY DEF FrameInv
<1>2. g \in Frame({f.keys}) BY <1>1 DEF Frame, Results
<1>3. /\ g.type = f.type /\ g.auth = f.auth /\ g.loop = f.loop /\ g.code = NOTSET /\ g.pc = "done"
      /\ g.keys = f.keys /\ g.error = f.error
  BY <1>1 DEF Frame
<1> HIDE DEF g
<1>4. FrameInv(g) BY <1>2, <1>3 DEF FrameInv, NOTSET
<1> QED BY <1>3, <1>4 DEF g

(* The result that the caller sees: a success with an error in its body is none for the four types *)
(* that map it, and only requests whose type does not are done again by a thread worker.           *)
LEMMA OverFrame ==
  ASSUME NEW f, FrameInv(f), f.pc = "done", NEW result \in Results,
         f.loop # -1 \/ result = Mapped(f).result
  PROVE  LET g == [Mapped(f) EXCEPT !.pc = "over", !.result = result]
         IN /\ FrameInv(g) /\ g.type = f.type /\ g.auth = f.auth /\ g.code = f.code /\ g.error = f.error
            /\ g.pc = "over"
<1> DEFINE m == Mapped(f)
           g == [Mapped(f) EXCEPT !.pc = "over", !.result = result]
<1>1. f \in Frame({f.keys}) BY DEF FrameInv
<1>2. m \in Frame({f.keys}) BY <1>1 DEF Mapped, Frame, Results
<1>3. /\ m.type = f.type /\ m.auth = f.auth /\ m.code = f.code /\ m.error = f.error /\ m.keys = f.keys /\ m.loop = f.loop
      /\ m.result = Done => f.error = None \/ f.type \notin {"PUT", "PUTHEAD", "UPLOADMULTIPOST", "PREMULTIPOST"}
  BY <1>1 DEF Mapped, Frame, Done
<1> HIDE DEF m
<1>4. g = [m EXCEPT !.pc = "over", !.result = result] BY DEF m
<1> HIDE DEF g
<1>5. g \in Frame({f.keys}) BY <1>2, <1>4 DEF Frame
<1>6. /\ g.type = f.type /\ g.auth = f.auth /\ g.code = f.code /\ g.error = f.error
      /\ g.pc = "over" /\ g.loop = f.loop /\ g.result = result /\ g.keys = f.keys
  BY <1>2, <1>3, <1>4 DEF Frame
<1>7. g.result = Done /\ f.code \in 200 .. 299 => f.error = None \/ f.type \in {"COPYMULTIPOST", "COMPLETEMULTIPOST"}
  <2>1. CASE f.loop # -1 BY <2>1 DEF FrameInv, Judged
  <2>2. CASE result = m.result BY <2>2, <1>3, <1>6 DEF FrameInv, Judged
  <2> QED BY <2>1, <2>2 DEF m
<1>8. FrameInv(g) BY <1>5, <1>6, <1>7 DEF FrameInv
<1> QED BY <1>6, <1>8 DEF g

(* A frame does not depend on the keys, only on whether IBM's are known. *)
LEMMA FrameKept ==
  ASSUME NEW f, FrameInv(f), cred'.ibm = cred.ibm, cred.ibm => cred'.secret = cred.secret
  PROVE  FrameInv(f)'
<1>1. RemadeOpts(f.type, f)' = RemadeOpts(f.type, f) BY DEF RemadeOpts
<1>2. Bare(f)' <=> Bare(f) BY DEF Bare
<1>3. \A o : MadeAgain(f, o) => MadeAgain(f, o)' BY <1>1, <1>2 DEF MadeAgain
<1>4. FirstAttempt(f) => FirstAttempt(f)' BY <1>3 DEF FirstAttempt
<1>5. LaterAttempt(f) => LaterAttempt(f)' BY <1>1, <1>3 DEF LaterAttempt
<1> QED BY <1>4, <1>5 DEF FrameInv

(* What the sources of keys leave alone. *)
Kept(c, r) ==
  /\ r.cred \in Creds(r.cred) /\ r.cred.ibm = c.ibm /\ r.cred.builtin = c.builtin
  /\ r.cred.lib = c.lib /\ r.cred.libopts = c.libopts

(* The two outcomes of a source of keys. *)
LEMMA FineWrong == ASSUME NEW c PROVE Fine(c).cred = c /\ Fine(c).ok = TRUE /\ Wrong(c).cred = c /\ Wrong(c).ok = FALSE
  BY DEF Fine, Wrong

(* Setting keys changes nothing but keys. *)
LEMMA KeysSet ==
  ASSUME NEW c, c \in Creds(c), NEW id, NEW secret, NEW token
  PROVE  /\ Kept(c, SetAccessKey(c, id, secret)) /\ Kept(c, SetAccessKeyWithSessionToken(c, id, secret, token))
         /\ Kept(c, Fine(c)) /\ Kept(c, Wrong(c))
<1> DEFINE d == [c EXCEPT !.id = id, !.secret = secret]
           e == [c EXCEPT !.id = id, !.secret = secret, !.token = token, !.session = TRUE]
<1>1. d \in Creds(d) /\ d.ibm = c.ibm /\ d.builtin = c.builtin /\ d.lib = c.lib /\ d.libopts = c.libopts BY DEF Creds
<1>2. e \in Creds(e) /\ e.ibm = c.ibm /\ e.builtin = c.builtin /\ e.lib = c.lib /\ e.libopts = c.libopts BY DEF Creds
<1>3. SetAccessKey(c, id, secret) = Wrong(c) \/ SetAccessKey(c, id, secret) = Fine(d) BY DEF SetAccessKey
<1>4. SetAccessKeyWithSessionToken(c, id, secret, token) = Wrong(c) \/ SetAccessKeyWithSessionToken(c, id, secret, token) = Fine(e)
  BY DEF SetAccessKeyWithSessionToken
<1> HIDE DEF d, e
<1>5. SetAccessKey(c, id, secret).cred = c \/ SetAccessKey(c, id, secret).cred = d BY <1>3, FineWrong
<1>6. SetAccessKeyWithSessionToken(c, id, secret, token).cred = c \/ SetAccessKeyWithSessionToken(c, id, secret, token).cred = e
  BY <1>4, FineWrong
<1>7. Kept(c, Fine(c)) /\ Kept(c, Wrong(c)) BY FineWrong DEF Kept
<1>8. Kept(c, SetAccessKey(c, id, secret)) BY <1>1, <1>5 DEF Kept
<1>9. Kept(c, SetAccessKeyWithSessionToken(c, id, secret, token)) BY <1>2, <1>6 DEF Kept
<1> QED BY <1>7, <1>8, <1>9

(* The password file and the AWS file give keys or nothing. *)
LEMMA FilesKeep ==
  ASSUME NEW c, c \in Creds(c), NEW file, NEW system, NEW bucket
  PROVE  Kept(c, ReadS3fsPasswdFile(c, file, system, bucket)) /\ Kept(c, ReadAwsCredentialFile(c, file))
<1>1. ReadS3fsPasswdFile(c, file, system, bucket) = Wrong(c)
        \/ \E i, s : ReadS3fsPasswdFile(c, file, system, bucket) = SetAccessKey(c, i, s)
  BY DEF ReadS3fsPasswdFile
<1>2. \/ ReadAwsCredentialFile(c, file) = Wrong(c)
      \/ \E i, s : ReadAwsCredentialFile(c, file) = SetAccessKey(c, i, s)
      \/ \E i, s, k : ReadAwsCredentialFile(c, file) = SetAccessKeyWithSessionToken(c, i, s, k)
  BY DEF ReadAwsCredentialFile
<1> QED BY <1>1, <1>2, KeysSet

(* So does every place that InitialS3fsCredentials tries. *)
LEMMA InitialKeeps ==
  ASSUME NEW c, c \in Creds(c), NEW m
  PROVE  Kept(c, InitialS3fsCredentials(c, m))
<1>1. Kept(c, FromEnvironment(c, m.env)) BY KeysSet DEF FromEnvironment
<1> QED BY <1>1, KeysSet, FilesKeep DEF InitialS3fsCredentials

(* The checks after the last option pass only when a library comes without builtin options. *)
LEMMA ParamsKeep ==
  ASSUME NEW c, c \in Creds(c), NEW m
  PROVE  LET r == CheckAllParams(c, m)
         IN /\ r.cred \in Creds(r.cred) /\ r.cred.ibm = c.ibm /\ r.cred.builtin = c.builtin
            /\ r.ok => r.cred.lib = None \/ ~r.cred.builtin
<1> DEFINE deferred == m.public \/ c.loadrole \/ c.ecs \/ c.lib # None
           found == IF deferred THEN Fine(c) ELSE InitialS3fsCredentials(c, m)
           k == found.cred
           external == k.lib # None \/ k.libopts # None
           bad == \/ IsSetAccessKeys(c) /\ (m.public \/ c.passwd # None)
                  \/ ~found.ok
                  \/ ~deferred /\ ~IsSetAccessKeys(k)
                  \/ k.ibm /\ ~m.private
                  \/ external /\ (k.builtin \/ k.lib = None)
           r == CheckAllParams(c, m)
<1>1. Kept(c, found) BY KeysSet, InitialKeeps
<1>2. r = IF bad THEN Wrong(c) ELSE IF external THEN InitExtCredLib(k, m) ELSE Fine(k) BY DEF CheckAllParams
<1> HIDE DEF found, r
<1>3. ~bad /\ external => ~k.builtin OBVIOUS
<1> HIDE DEF bad
<1>4. k \in Creds(k) /\ k.ibm = c.ibm /\ k.builtin = c.builtin BY <1>1 DEF Kept
<1>5. ~external => k.lib = None OBVIOUS
<1> HIDE DEF external, k
<1>6. InitExtCredLib(k, m) \in {Fine(k), Wrong(k)} BY DEF InitExtCredLib
<1>7. r.cred = c \/ r.cred = k BY <1>2, <1>6, FineWrong
<1>8. r.ok => ~bad /\ r.cred = k BY <1>2, <1>6, FineWrong
<1> QED BY <1>3, <1>4, <1>5, <1>7, <1>8 DEF r

(* An option of IBM's is a builtin one. *)
LEMMA OptionKeeps ==
  ASSUME NEW c, c \in Creds(c), c.ibm => c.builtin, NEW name \in OptionNames, NEW value
  PROVE  LET r == DetectParam(c, name, value)
         IN r.cred \in Creds(r.cred) /\ (r.cred.ibm => r.cred.builtin)
<1> DEFINE r == DetectParam(c, name, value)
           b == [c EXCEPT !.builtin = TRUE]
           Good(d) == d \in Creds(d) /\ (d.ibm => d.builtin)
<1>1. Good(c) OBVIOUS
<1>2. b \in Creds(b) /\ b.builtin BY DEF Creds
<1>3. r = CASE name = "passwd_file"       -> Fine([b EXCEPT !.passwd = value])
    [] name = "ibm_iam_auth"      -> Fine([b EXCEPT !.ibm = TRUE, !.fields = 2, !.imds = 1])
    [] name = "use_session_token" -> Fine([b EXCEPT !.session = TRUE])
    [] name = "ibm_iam_endpoint"  -> IF value = "noscheme" THEN Wrong(c) ELSE Fine(b)
    [] name = "imdsv1only"        -> Fine([b EXCEPT !.imds = 1])
    [] name = "ecs"               -> IF c.ibm THEN Wrong(c)
                                     ELSE Fine([b EXCEPT !.ecs = TRUE, !.imds = 1, !.fields = 5])
    [] name = "iam_role"          -> IF c.ecs \/ c.ibm THEN Wrong(c)
                                     ELSE IF value \in {None, "auto"} THEN Fine([b EXCEPT !.loadrole = TRUE])
                                     ELSE Fine([b EXCEPT !.role = value, !.loadrole = FALSE])
    [] name = "profile"           -> Fine([b EXCEPT !.profile = IF value = None THEN c.profile ELSE value])
    [] name = "credlib"           -> IF value = None THEN Wrong(c) ELSE Fine([c EXCEPT !.lib = value])
    [] name = "credlib_opts"      -> IF value = None THEN Wrong(c) ELSE Fine([c EXCEPT !.libopts = value])
  BY DEF DetectParam
<1> HIDE DEF b, r
<1>4. /\ Good([b EXCEPT !.passwd = value]) /\ Good([b EXCEPT !.ibm = TRUE, !.fields = 2, !.imds = 1])
      /\ Good([b EXCEPT !.session = TRUE]) /\ Good(b) /\ Good([b EXCEPT !.imds = 1])
      /\ Good([b EXCEPT !.ecs = TRUE, !.imds = 1, !.fields = 5])
      /\ Good([b EXCEPT !.loadrole = TRUE]) /\ Good([b EXCEPT !.role = value, !.loadrole = FALSE])
      /\ Good([b EXCEPT !.profile = IF value = None THEN c.profile ELSE value])
  BY <1>2 DEF Creds
<1>5. Good([c EXCEPT !.lib = value]) /\ Good([c EXCEPT !.libopts = value]) BY DEF Creds
<1> HIDE DEF Good
<1>6. Good(r.cred) BY <1>1, <1>3, <1>4, <1>5, FineWrong, ZenonT(30) DEF OptionNames
<1> QED BY <1>6 DEF Good, r

(* What an answer of a credential service changes. *)
LEMMA AnswersKeep ==
  ASSUME NEW c, c \in Creds(c), NEW answer, NEW issue, NEW expire \in Nat, NEW role
  PROVE  /\ LET r == SetIAMCredentials(c, answer, issue, expire)
            IN Kept(c, r) /\ (c.ibm => r.cred.secret = c.secret)
         /\ Kept(c, UpdateExtCredentials(c, answer, issue, expire))
         /\ LET r == SetIAMRole(c, role) IN Kept(c, r) /\ r.cred.secret = c.secret
<1> DEFINE d == [c EXCEPT !.token = issue, !.expire = expire]
           e == [c EXCEPT !.id = issue, !.secret = issue, !.token = issue, !.expire = expire]
           g == [c EXCEPT !.role = role]
<1>1. /\ d \in Creds(d) /\ d.ibm = c.ibm /\ d.builtin = c.builtin /\ d.lib = c.lib /\ d.libopts = c.libopts
      /\ d.secret = c.secret
  BY DEF Creds
<1>2. e \in Creds(e) /\ e.ibm = c.ibm /\ e.builtin = c.builtin /\ e.lib = c.lib /\ e.libopts = c.libopts BY DEF Creds
<1>3. /\ g \in Creds(g) /\ g.ibm = c.ibm /\ g.builtin = c.builtin /\ g.lib = c.lib /\ g.libopts = c.libopts
      /\ g.secret = c.secret
  BY DEF Creds
<1>4. LET r == SetIAMCredentials(c, answer, issue, expire) IN r = Wrong(c) \/ (c.ibm /\ r = Fine(d)) \/ (~c.ibm /\ r = Fine(e))
  BY DEF SetIAMCredentials
<1>5. UpdateExtCredentials(c, answer, issue, expire) \in {Wrong(c), Fine(e)} BY DEF UpdateExtCredentials
<1>6. SetIAMRole(c, role) \in {Wrong(c), Fine(g)} BY DEF SetIAMRole
<1> HIDE DEF d, e, g
<1>7. /\ LET r == SetIAMCredentials(c, answer, issue, expire)
         IN Kept(c, r) /\ (c.ibm => r.cred.secret = c.secret)
  BY <1>1, <1>2, <1>4, FineWrong, ZenonT(30) DEF Kept
<1>8. Kept(c, UpdateExtCredentials(c, answer, issue, expire)) BY <1>2, <1>5, FineWrong DEF Kept
<1>9. LET r == SetIAMRole(c, role) IN Kept(c, r) /\ r.cred.secret = c.secret BY <1>3, <1>6, FineWrong DEF Kept
<1> QED BY <1>7, <1>8, <1>9

(* Replacing the only request of a thread. *)
LEMMA ReplacedOne ==
  ASSUME NEW t \in Threads, DOMAIN stack = Threads, NEW f, stack[t] = <<f>>, NEW g
  PROVE  Top(t) = f /\ Replaced(t, g) = [stack EXCEPT ![t] = <<g>>]
<1>1. Len(stack[t]) = 1 OBVIOUS
<1>2. [stack[t] EXCEPT ![1] = g] = <<g>> OBVIOUS
<1>3. Replaced(t, g) = [stack EXCEPT ![t] = [stack[t] EXCEPT ![1] = g]] BY <1>1 DEF Replaced
<1>4. Top(t) = stack[t][1] BY <1>1 DEF Top
<1>5. Top(t) = f BY <1>4
<1> QED BY <1>2, <1>3, <1>5

(* Replacing the token request above another. *)
LEMMA ReplacedTwo ==
  ASSUME NEW t \in Threads, DOMAIN stack = Threads, NEW f, NEW h, stack[t] = <<f, h>>, NEW g
  PROVE  Top(t) = h /\ Replaced(t, g) = [stack EXCEPT ![t] = <<f, g>>]
<1>1. Len(stack[t]) = 2 OBVIOUS
<1>2. [stack[t] EXCEPT ![2] = g] = <<f, g>> OBVIOUS
<1>3. Replaced(t, g) = [stack EXCEPT ![t] = [stack[t] EXCEPT ![2] = g]] BY <1>1 DEF Replaced
<1>4. Top(t) = stack[t][2] BY <1>1 DEF Top
<1>5. Top(t) = h BY <1>4
<1> QED BY <1>2, <1>3, <1>5

(* What a step may do to the credentials and still leave the requests on their way as they are. *)
Compatible == cred'.ibm = cred.ibm /\ (cred.ibm => cred'.secret = cred.secret)

(* The stack of a thread that does not step is not touched by the step of another. *)
LEMMA StackKept ==
  ASSUME NEW u \in Threads, StackInv(u), stack'[u] = stack[u], store'[u] = store[u],
         tokenLock' = u <=> tokenLock = u, Compatible
  PROVE  StackInv(u)'
<1>1. CASE stack[u] = <<>> /\ tokenLock # u BY <1>1 DEF StackInv
<1>2. CASE \E f : One(u, f)
  <2>1. PICK f : One(u, f) BY <1>2
  <2>2. FrameInv(f)' BY <2>1, FrameKept DEF One, Compatible
  <2>3. Answer(u, f)' BY <2>1 DEF One, Answer, DoneAtS3
  <2>4. One(u, f)' BY <2>1, <2>2, <2>3 DEF One
  <2> QED BY <2>4 DEF StackInv
<1>3. CASE \E f, g : Two(u, f, g)
  <2>1. PICK f, g : Two(u, f, g) BY <1>3
  <2>2. FrameInv(f)' /\ FrameInv(g)' BY <2>1, FrameKept DEF Two, Compatible
  <2>3. Two(u, f, g)' BY <2>1, <2>2 DEF Two, Compatible
  <2> QED BY <2>3 DEF StackInv
<1> QED BY <1>1, <1>2, <1>3 DEF StackInv

(* A step of one thread that keeps its stack in order keeps all of them. *)
LEMMA StackStep ==
  ASSUME StacksInv, NEW t \in Threads, NEW s, stack' = [stack EXCEPT ![t] = s], Compatible,
         \A u \in Threads \ {t} : store'[u] = store[u] /\ (tokenLock' = u <=> tokenLock = u),
         StackInv(t)'
  PROVE  StacksInv'
<1>1. DOMAIN stack' = Threads BY DEF StacksInv
<1>2. ASSUME NEW u \in Threads PROVE StackInv(u)'
  <2>1. CASE u = t BY <2>1
  <2>2. CASE u # t
    <3>1. stack'[u] = stack[u] BY <2>2 DEF StacksInv
    <3>2. store'[u] = store[u] /\ (tokenLock' = u <=> tokenLock = u) BY <2>2
    <3>3. StackInv(u) BY DEF StacksInv
    <3> QED BY <3>1, <3>2, <3>3, StackKept
  <2> QED BY <2>1, <2>2
<1> QED BY <1>1, <1>2 DEF StacksInv

(* A step that touches no stack keeps them in order. *)
LEMMA StacksKept ==
  ASSUME StacksInv, stack' = stack, store' = store, tokenLock' = tokenLock, Compatible
  PROVE  StacksInv'
<1>1. ASSUME NEW u \in Threads PROVE StackInv(u)' BY StackKept DEF StacksInv
<1> QED BY <1>1 DEF StacksInv

(* The request of a thread goes on. *)
LEMMA TopStep ==
  ASSUME StacksInv, NEW t \in Threads, stack[t] # <<>>, NEW g, stack' = Replaced(t, g), FrameInv(g), Compatible,
         g.type = Top(t).type, g.auth = Top(t).auth, tokenLock' = tokenLock,
         tokenLock # t => Answer(t, g)', tokenLock = t => g.pc # "over",
         \A u \in Threads \ {t} : store'[u] = store[u]
  PROVE  StacksInv' /\ \A u \in Threads : stack'[u] = <<>> <=> stack[u] = <<>>
<1>0. FrameInv(g)' BY FrameKept DEF Compatible
<1>1. StackInv(t) /\ DOMAIN stack = Threads BY DEF StacksInv
<1>2. CASE \E f : One(t, f)
  <2>1. PICK f : One(t, f) BY <1>2
  <2>2. Top(t) = f /\ stack' = [stack EXCEPT ![t] = <<g>>] BY <2>1, <1>1, ReplacedOne DEF One
  <2>3. stack'[t] = <<g>> BY <2>2, <1>1
  <2>4. One(t, g)' BY <2>1, <2>2, <2>3, <1>0 DEF One
  <2>5. StacksInv' BY <2>2, <2>4, StackStep DEF StackInv
  <2> QED BY <1>1, <2>2, <2>5
<1>3. CASE \E f, h : Two(t, f, h)
  <2>1. PICK f, h : Two(t, f, h) BY <1>3
  <2>2. Top(t) = h /\ stack' = [stack EXCEPT ![t] = <<f, g>>] BY <2>1, <1>1, ReplacedTwo DEF Two
  <2>3. stack'[t] = <<f, g>> BY <2>2, <1>1
  <2>4. FrameInv(f)' BY <2>1, FrameKept DEF Two, Compatible
  <2>5. Two(t, f, g)' BY <2>1, <2>2, <2>3, <2>4, <1>0 DEF Two, Compatible
  <2>6. StacksInv' BY <2>2, <2>5, StackStep DEF StackInv
  <2> QED BY <1>1, <2>2, <2>6
<1> QED BY <1>1, <1>2, <1>3 DEF StackInv

(* What the innermost request of a thread tells of its stack: who signs holds no lock. *)
LEMMA TopFacts ==
  ASSUME StacksInv, NEW t \in Threads, stack[t] # <<>>
  PROVE  /\ FrameInv(Top(t)) /\ (Top(t).auth => tokenLock # t)
         /\ (tokenLock # t => One(t, Top(t)) /\ Len(stack[t]) = 1)
         /\ (tokenLock = t => Len(stack[t]) = 2 /\ \E f : Two(t, f, Top(t)))
<1>1. StackInv(t) /\ DOMAIN stack = Threads BY DEF StacksInv
<1>2. CASE \E f : One(t, f)
  <2>1. PICK f : One(t, f) BY <1>2
  <2>2. Top(t) = f BY <1>1, <2>1, ReplacedOne DEF One
  <2>3. tokenLock # t /\ FrameInv(f) /\ stack[t] = <<f>> BY <2>1 DEF One
  <2>4. Len(stack[t]) = 1 BY <2>3
  <2> QED BY <2>1, <2>2, <2>3, <2>4
<1>3. CASE \E f, g : Two(t, f, g)
  <2>1. PICK f, g : Two(t, f, g) BY <1>3
  <2>2. Top(t) = g BY <1>1, <2>1, ReplacedTwo DEF Two
  <2>3. tokenLock = t /\ FrameInv(g) /\ stack[t] = <<f, g>> /\ ~g.auth BY <2>1 DEF Two
  <2>4. Len(stack[t]) = 2 BY <2>3
  <2> QED BY <2>1, <2>2, <2>3, <2>4
<1> QED BY <1>1, <1>2, <1>3 DEF StackInv

(* None is no thread, and the main thread is no worker. *)
LEMMA NoThread == None \notin Threads /\ Main \in Threads /\ Workers \subseteq Threads /\ Main \notin Workers
  BY RequestAssumption DEF RequestAssumption, Threads

(* Requests are under way only after the options have been checked. *)
LEMMA Phase ==
  ASSUME PhaseInv, NEW t \in Threads, stack[t] # <<>>
  PROVE  start \in {"role", "cred", "check", "mounted"}
  BY DEF PhaseInv, Threads

(* Credentials that do not change are compatible. *)
LEMMA SameCompatible == ASSUME UNCHANGED cred PROVE Compatible
  BY DEF Compatible

(* A request without an answer claims nothing. *)
LEMMA NoAnswerYet == ASSUME NEW t, NEW f, f.code = NOTSET PROVE Answer(t, f)'
  BY DEF Answer, NOTSET

(* The types survive a step of a request. *)
LEMMA TypesKept ==
  ASSUME StateTypes, UNCHANGED <<start, setup, now, jobs>>, tokenLock' \in Threads \cup {None}, apiToken' \in BOOLEAN,
         bundle' \in BOOLEAN, curl' \in [Threads -> {"OK", "BAD"}], store' \in [Threads -> Stores]
  PROVE  StateTypes'
  BY DEF StateTypes, SetupShape

(* The credentials stay typed when a source of keys has set them. *)
LEMMA CredKept ==
  ASSUME CredInv, NEW r, Kept(cred, r), cred' = r.cred, start' = start
  PROVE  CredInv'
  BY DEF CredInv, Kept, Creds

(* And when nothing does. *)
LEMMA CredUnchanged ==
  ASSUME CredInv, UNCHANGED <<cred, start>>
  PROVE  CredInv'
  BY DEF CredInv, Creds

(* The invariant survives a step that only replaces the innermost request of a thread. *)
LEMMA TopInv ==
  ASSUME IInv, NEW t \in Threads, stack[t] # <<>>, NEW g, stack' = Replaced(t, g), FrameInv(g), Compatible,
         g.type = Top(t).type, g.auth = Top(t).auth, tokenLock' = tokenLock,
         tokenLock # t => Answer(t, g)', tokenLock = t => g.pc # "over",
         \A u \in Threads \ {t} : store'[u] = store[u], StateTypes', CredInv', start' = start
  PROVE  IInv'
<1>1. StacksInv' /\ \A u \in Threads : stack'[u] = <<>> <=> stack[u] = <<>> BY TopStep DEF IInv
<1>2. PhaseInv' BY <1>1, NoThread DEF IInv, PhaseInv
<1> QED BY <1>1, <1>2 DEF IInv

(* A token request is sent as it is. *)
LEMMA UnsignedStep ==
  ASSUME IInv, NEW t \in Threads, Sign(t), Unsigned(t)
  PROVE  IInv'
<1>1. stack[t] # <<>> /\ Top(t).pc = "sign" /\ UNCHANGED <<apiToken, bundle, curl, store, setup, start, jobs, now>>
  BY DEF Sign, IdleStart
<1>2. PICK f : f = Top(t) OBVIOUS
<1>3. PICK g : g = [f EXCEPT !.pc = "send"] OBVIOUS
<1>4. ~f.auth /\ stack' = Replaced(t, g) /\ UNCHANGED <<cred, tokenLock>> BY <1>2, <1>3 DEF Unsigned
<1>5. FrameInv(f) BY <1>1, <1>2, TopFacts DEF IInv
<1>6. FrameInv(g) /\ g.type = f.type /\ g.auth = f.auth /\ g.code = NOTSET /\ g.pc = "send"
  BY <1>1, <1>2, <1>3, <1>4, <1>5, UnsignedFrame
<1>7. Compatible /\ Answer(t, g)' BY <1>4, <1>6, SameCompatible, NoAnswerYet
<1>8. CredInv' BY <1>1, <1>4, CredUnchanged DEF IInv
<1>9. StateTypes' BY <1>1, <1>4 DEF StateTypes, IInv, SetupShape
<1> QED BY <1>1, <1>2, <1>4, <1>6, <1>7, <1>8, <1>9, TopInv

(* The keys at hand sign the request. *)
LEMMA SignAtOnceStep ==
  ASSUME IInv, NEW t \in Threads, Sign(t), SignAtOnce(t)
  PROVE  IInv'
<1>1. stack[t] # <<>> /\ Top(t).pc = "sign" /\ UNCHANGED <<apiToken, bundle, curl, store, setup, start, jobs, now>>
  BY DEF Sign, IdleStart
<1>2. PICK f : f = Top(t) OBVIOUS
<1>3. PICK c : c = cred OBVIOUS
<1>4. PICK g : g = Signed(f, c) OBVIOUS
<1>5. f.auth /\ tokenLock = None /\ stack' = Replaced(t, g) /\ UNCHANGED <<cred, tokenLock>>
  BY <1>2, <1>3, <1>4 DEF SignAtOnce
<1>6. FrameInv(f) BY <1>1, <1>2, TopFacts DEF IInv
<1>7. FrameInv(g) /\ g.type = f.type /\ g.auth = f.auth /\ g.code = NOTSET
  BY <1>1, <1>2, <1>4, <1>5, <1>6, SignedFrame
<1>8. Compatible /\ Answer(t, g)' BY <1>5, <1>7, SameCompatible, NoAnswerYet
<1>9. CredInv' BY <1>1, <1>5, CredUnchanged DEF IInv
<1>10. StateTypes' BY <1>1, <1>5 DEF StateTypes, IInv, SetupShape
<1>11. tokenLock # t BY <1>5, NoThread
<1> QED BY <1>1, <1>2, <1>5, <1>7, <1>8, <1>9, <1>10, <1>11, TopInv

(* Keys of a library are never IBM's: its options would be set. *)
LEMMA LibraryIsNotIbm ==
  ASSUME IInv, NEW t \in Threads, stack[t] # <<>>, cred.lib # None
  PROVE  ~cred.ibm
<1>1. start \in {"role", "cred", "check", "mounted"} BY Phase DEF IInv
<1> QED BY <1>1 DEF IInv, CredInv

(* The library's keys sign the request, or it fails. *)
LEMMA SignFromLibraryStep ==
  ASSUME IInv, NEW t \in Threads, Sign(t), SignFromLibrary(t)
  PROVE  IInv'
<1>1. stack[t] # <<>> /\ Top(t).pc = "sign" /\ UNCHANGED <<apiToken, bundle, curl, store, setup, start, jobs, now>>
  BY DEF Sign, IdleStart
<1>2. PICK f : f = Top(t) OBVIOUS
<1>3. PICK answer, u : /\ u = UpdateExtCredentials(cred, answer, ToString(now), now + Lifetime) /\ cred' = u.cred
                       /\ IF u.ok THEN stack' = Replaced(t, Signed(Top(t), u.cred)) ELSE CannotSign(t)
  BY DEF SignFromLibrary
<1>4. f.auth /\ tokenLock = None /\ UNCHANGED tokenLock /\ cred.lib # None BY <1>2 DEF SignFromLibrary
<1>5. Kept(cred, u) /\ cred' = u.cred
  <2>1. now + Lifetime \in Nat BY RequestAssumption DEF IInv, StateTypes, RequestAssumption
  <2> QED BY <1>3, <2>1, AnswersKeep DEF IInv, CredInv
<1>6. Compatible BY <1>1, <1>4, <1>5, LibraryIsNotIbm DEF Compatible, Kept
<1>7. CredInv' BY <1>1, <1>5, CredKept DEF IInv
<1>8. StateTypes' BY <1>1, <1>4 DEF StateTypes, IInv, SetupShape
<1>9. tokenLock # t BY <1>4, NoThread
<1>10. FrameInv(f) BY <1>1, <1>2, TopFacts DEF IInv
<1>11. CASE u.ok
  <2>1. PICK g : g = Signed(f, u.cred) OBVIOUS
  <2>2. stack' = Replaced(t, g) BY <1>2, <1>3, <1>11, <2>1
  <2>3. FrameInv(g) /\ g.type = f.type /\ g.auth = f.auth /\ g.code = NOTSET
    BY <1>1, <1>2, <1>4, <1>10, <2>1, SignedFrame
  <2>4. Answer(t, g)' BY <2>3, NoAnswerYet
  <2> QED BY <1>1, <1>2, <1>4, <1>6, <1>7, <1>8, <1>9, <2>2, <2>3, <2>4, TopInv
<1>12. CASE ~u.ok
  <2>1. PICK g : g = [f EXCEPT !.pc = "done", !.result = "EIO"] OBVIOUS
  <2>2. stack' = Replaced(t, g) BY <1>2, <1>3, <1>12, <2>1 DEF CannotSign
  <2>3. FrameInv(g) /\ g.type = f.type /\ g.auth = f.auth /\ g.code = NOTSET
    BY <1>1, <1>2, <1>4, <1>10, <2>1, CannotSignFrame
  <2>4. Answer(t, g)' BY <2>3, NoAnswerYet
  <2> QED BY <1>1, <1>2, <1>4, <1>6, <1>7, <1>8, <1>9, <2>2, <2>3, <2>4, TopInv
<1> QED BY <1>11, <1>12

(* Requests of the token service, as they are made. *)
LEMMA TokenFrames ==
  ASSUME cred.ibm \in BOOLEAN, NEW k \in BOOLEAN, NEW ibm \in BOOLEAN
  PROVE  /\ FrameInv(AskApiToken) /\ AskApiToken.type = "UNSET" /\ ~AskApiToken.auth /\ AskApiToken.pc = "sign"
         /\ LET g == TokenRequest(GetIAMCredentials(k, ibm))
            IN (ibm <=> cred.ibm /\ cred.secret # None) =>
                 FrameInv(g) /\ g.type = "IAMCRED" /\ ~g.auth /\ g.pc = "sign"
         /\ LET g == TokenRequest(GetIAMRoleFromMetaData(k))
            IN FrameInv(g) /\ g.type = "IAMROLE" /\ ~g.auth /\ g.pc = "sign" /\ g.code = NOTSET
         /\ AskApiToken.code = NOTSET
<1>1. GetIAMv2ApiToken.type = "UNSET" /\ GetIAMCredentials(k, ibm).type = "IAMCRED" /\ GetIAMRoleFromMetaData(k).type = "IAMROLE"
  BY BuiltFields DEF GetIAMv2ApiToken, GetIAMCredentials, GetIAMRoleFromMetaData
<1>2. Sound(GetIAMv2ApiToken) /\ Sound(GetIAMRoleFromMetaData(k)) BY TokenSound, BuildersSound
<1>3. (ibm <=> cred.ibm /\ cred.secret # None) => Sound(GetIAMCredentials(k, ibm)) BY KeyRequestsSound
<1>4. -1 \in Int /\ FALSE \in BOOLEAN OBVIOUS
<1>5. ASSUME NEW b, Sound(b), b.type # "CRED"
      PROVE  /\ FrameInv(Request(b, FALSE, -1)) /\ Request(b, FALSE, -1).type = b.type /\ Request(b, FALSE, -1).auth = FALSE
             /\ Request(b, FALSE, -1).pc = "sign" /\ Request(b, FALSE, -1).code = NOTSET
  BY <1>4, <1>5, NewRequest
<1> QED BY <1>1, <1>2, <1>3, <1>5 DEF AskApiToken, TokenRequest

(* Two requests on a stack. *)
LEMMA PairAppended ==
  ASSUME NEW f, NEW g
  PROVE  Append(<<f>>, g) = <<f, g>>
<1> DEFINE S == {f, g}
           s == Append(<<f>>, g)
           r == <<f, g>>
<1>1. <<f>> \in Seq(S) /\ Len(<<f>>) = 1 /\ <<f>>[1] = f OBVIOUS
<1>2. r \in Seq(S) /\ Len(r) = 2 /\ r[1] = f /\ r[2] = g OBVIOUS
<1>3. g \in S OBVIOUS
<1> HIDE DEF S
<1>4. s \in Seq(S) /\ Len(s) = 2 /\ s[1] = f /\ s[2] = g BY <1>1, <1>3, AppendProperties
<1> HIDE DEF s, r
<1>5. s = r BY <1>2, <1>4, SeqEqual
<1> QED BY <1>5 DEF s, r

(* The thread takes token_lock and puts a token request on its stack. *)
LEMMA SignAfterRefreshStep ==
  ASSUME IInv, NEW t \in Threads, Sign(t), SignAfterRefresh(t)
  PROVE  IInv'
<1>1. stack[t] # <<>> /\ Top(t).pc = "sign" /\ UNCHANGED <<apiToken, bundle, curl, store, setup, start, jobs, now>>
  BY DEF Sign, IdleStart
<1>2. PICK f : f = Top(t) OBVIOUS
<1>3. f.auth /\ tokenLock = None /\ cred' = cred BY <1>2 DEF SignAfterRefresh
<1>4. tokenLock # t BY <1>3, NoThread
<1>5. FrameInv(f) /\ One(t, f) BY <1>1, <1>2, <1>4, TopFacts DEF IInv
<1>6. Compatible BY <1>3, SameCompatible
<1>7. CredInv' BY <1>1, <1>3, CredUnchanged DEF IInv
<1>8. CASE ~UrlKnown
  <2>1. PICK g : g = [f EXCEPT !.pc = "done", !.result = "EIO"] OBVIOUS
  <2>2. stack' = Replaced(t, g) /\ tokenLock' = tokenLock BY <1>2, <1>8, <2>1 DEF SignAfterRefresh, CannotSign
  <2>3. FrameInv(g) /\ g.type = f.type /\ g.auth = f.auth /\ g.code = NOTSET
    BY <1>1, <1>2, <1>5, <2>1, CannotSignFrame
  <2>4. Answer(t, g)' BY <2>3, NoAnswerYet
  <2>5. StateTypes' BY <1>1, <2>2 DEF StateTypes, IInv, SetupShape
  <2> QED BY <1>1, <1>2, <1>3, <1>4, <1>6, <1>7, <2>2, <2>3, <2>4, <2>5, TopInv
<1>9. CASE UrlKnown
  <2> DEFINE ask == IF ~cred.ecs /\ ~cred.ibm /\ cred.imds > 1 THEN AskApiToken ELSE AskKeys(cred)
  <2>1. tokenLock' = t /\ stack' = [stack EXCEPT ![t] = Append(@, ask)] BY <1>9 DEF SignAfterRefresh
  <2>2. cred.ibm \in BOOLEAN /\ cred.imds \in Nat /\ apiToken \in BOOLEAN BY DEF IInv, CredInv, Creds, StateTypes
  <2>3. FrameInv(ask) /\ ~ask.auth /\ ask.pc = "sign" /\ (ask.type = "IAMCRED" \/ (ask.type = "UNSET" /\ ~cred.ibm))
    <3>1. CASE ~cred.ecs /\ ~cred.ibm /\ cred.imds > 1 BY <3>1, <2>2, TokenFrames
    <3>2. CASE ~(~cred.ecs /\ ~cred.ibm /\ cred.imds > 1)
      <4> DEFINE k == cred.imds > 1 /\ apiToken
                 ibm == cred.ibm /\ cred.secret # None
      <4>1. ask = TokenRequest(GetIAMCredentials(k, ibm)) BY <3>2 DEF AskKeys
      <4>2. k \in BOOLEAN /\ ibm \in BOOLEAN /\ (ibm <=> cred.ibm /\ cred.secret # None) BY <2>2
      <4> HIDE DEF k, ibm, ask
      <4>3. PICK kk \in BOOLEAN, ii \in BOOLEAN : kk = k /\ ii = ibm BY <4>2
      <4>4. ask = TokenRequest(GetIAMCredentials(kk, ii)) /\ (ii <=> cred.ibm /\ cred.secret # None) BY <4>1, <4>2, <4>3
      <4> QED BY <4>4, <2>2, TokenFrames
    <3> QED BY <3>1, <3>2
  <2>4. PICK g : g = ask OBVIOUS
  <2> HIDE DEF ask
  <2>5. Append(stack[t], g) = <<f, g>>
    <3>1. Append(<<f>>, g) = <<f, g>> BY PairAppended
    <3>2. stack[t] = <<f>> BY <1>5 DEF One
    <3> QED BY <3>1, <3>2
  <2>6. DOMAIN stack = Threads BY DEF IInv, StacksInv
  <2>7. stack' = [stack EXCEPT ![t] = <<f, g>>]
    <3>1. stack' = [stack EXCEPT ![t] = Append(stack[t], g)] BY <2>1, <2>4, <2>6
    <3> QED BY <3>1, <2>5
  <2>8. stack'[t] = <<f, g>> BY <2>6, <2>7
  <2>9. FrameInv(f)' /\ FrameInv(g)' BY <1>5, <1>6, <2>3, <2>4, FrameKept DEF Compatible
  <2>10. f.pc = "sign" /\ f.type # "IAMCRED" BY <1>1, <1>2, <1>5 DEF One
  <2>11. ~g.auth /\ g.type \in {"UNSET", "IAMCRED"} /\ g.pc # "over" /\ (g.type = "UNSET" => ~cred'.ibm)
    BY <1>3, <2>3, <2>4
  <2>12. Two(t, f, g)' BY <1>3, <2>1, <2>8, <2>9, <2>10, <2>11 DEF Two
  <2>13. \A u \in Threads \ {t} : store'[u] = store[u] /\ (tokenLock' = u <=> tokenLock = u)
    BY <1>1, <1>3, <2>1, NoThread
  <2>14. StacksInv' BY <1>6, <2>7, <2>12, <2>13, StackStep DEF IInv, StackInv
  <2>15. \A u \in Threads : stack'[u] = <<>> <=> stack[u] = <<>> BY <1>1, <2>6, <2>7
  <2>16. PhaseInv' BY <1>1, <2>15, NoThread DEF IInv, PhaseInv
  <2>17. StateTypes' BY <1>1, <2>1, TypesKept DEF StateTypes, IInv
  <2> QED BY <1>7, <2>14, <2>16, <2>17 DEF IInv
<1> QED BY <1>8, <1>9

(* Signing, in all its ways. *)
LEMMA SignStep ==
  ASSUME IInv, NEW t \in Threads, Sign(t)
  PROVE  IInv'
BY UnsignedStep, SignAtOnceStep, SignFromLibraryStep, SignAfterRefreshStep DEF Sign

(* The API token's request gives way to the one for the keys, and the lock stays. *)
LEMMA ApiTokenAnsweredStep ==
  ASSUME IInv, NEW t \in Threads, ApiTokenAnswered(t)
  PROVE  IInv'
<1>1. /\ Len(stack[t]) = 2 /\ Top(t).type = "UNSET" /\ AfterApiToken(Top(t).result)
      /\ stack' = Replaced(t, TokenRequest(GetIAMCredentials(cred'.imds > 1 /\ apiToken', FALSE)))
      /\ UNCHANGED <<tokenLock, bundle, curl, store, setup, start, jobs, now>>
  BY DEF ApiTokenAnswered, IdleStart
<1>2. stack[t] # <<>> /\ tokenLock = t
  <2>1. stack[t] # <<>> BY <1>1
  <2> QED BY <1>1, <2>1, TopFacts DEF IInv
<1>3. PICK f, h : Two(t, f, h) /\ h = Top(t) BY <1>2, TopFacts DEF IInv
<1>4. ~cred.ibm BY <1>1, <1>3 DEF Two
<1>5. /\ cred' \in Creds(cred') /\ cred'.ibm = cred.ibm /\ cred'.secret = cred.secret /\ cred'.lib = cred.lib
      /\ cred'.builtin = cred.builtin
  BY <1>1 DEF AfterApiToken, IInv, CredInv, Creds
<1>6. apiToken' \in BOOLEAN BY <1>1 DEF AfterApiToken, IInv, StateTypes
<1>7. CredInv' BY <1>1, <1>5 DEF IInv, CredInv
<1>8. Compatible BY <1>5 DEF Compatible
<1>9. StateTypes' BY <1>1, <1>6, TypesKept DEF IInv, StateTypes
<1>10. PICK k \in BOOLEAN : k = (cred'.imds > 1 /\ apiToken') BY <1>5, <1>6 DEF Creds
<1>11. PICK g : g = TokenRequest(GetIAMCredentials(k, FALSE)) OBVIOUS
<1>12. FrameInv(g) /\ g.type = "IAMCRED" /\ ~g.auth /\ g.pc = "sign"
  BY <1>4, <1>11, TokenFrames DEF IInv, CredInv, Creds
<1>13. stack' = Replaced(t, g) BY <1>1, <1>10, <1>11
<1>14. stack[t] = <<f, h>> /\ DOMAIN stack = Threads BY <1>3 DEF Two, IInv, StacksInv
<1>15. stack' = [stack EXCEPT ![t] = <<f, g>>] BY <1>13, <1>14, ReplacedTwo
<1>16. stack'[t] = <<f, g>> BY <1>14, <1>15
<1>17. FrameInv(f)' /\ FrameInv(g)' BY <1>3, <1>8, <1>12, FrameKept DEF Two, Compatible
<1>18. Two(t, f, g)' BY <1>1, <1>3, <1>12, <1>16, <1>17 DEF Two
<1>19. StacksInv' BY <1>1, <1>8, <1>15, <1>18, StackStep DEF IInv, StackInv
<1>20. \A u \in Threads : stack'[u] = <<>> <=> stack[u] = <<>> BY <1>2, <1>14, <1>15
<1>21. PhaseInv' BY <1>1, <1>20, NoThread DEF IInv, PhaseInv
<1> QED BY <1>7, <1>9, <1>19, <1>21 DEF IInv

(* The keys' request leaves the stack, the lock is free, and the request below is signed or fails. *)
LEMMA KeysAnsweredStep ==
  ASSUME IInv, NEW t \in Threads, KeysAnswered(t)
  PROVE  IInv'
<1>1. Len(stack[t]) = 2 /\ tokenLock' = None /\ UNCHANGED <<apiToken, bundle, curl, store, setup, start, jobs, now>>
  BY DEF KeysAnswered, IdleStart
<1>2. stack[t] # <<>> /\ tokenLock = t
  <2>1. stack[t] # <<>> BY <1>1
  <2> QED BY <1>1, <2>1, TopFacts DEF IInv
<1>3. PICK f, h : Two(t, f, h) BY <1>2, TopFacts DEF IInv
<1>4. stack[t] = <<f, h>> /\ DOMAIN stack = Threads BY <1>3 DEF Two, IInv, StacksInv
<1>5. stack[t][1] = f BY <1>4
<1>6. PICK answer, u : /\ u = IF Top(t).result = Done
                             THEN SetIAMCredentials(cred, answer, ToString(now), now + Lifetime) ELSE Wrong(cred)
                       /\ cred' = u.cred
                       /\ stack' = [stack EXCEPT ![t] = IF u.ok THEN <<Signed(f, u.cred)>>
                                                        ELSE <<[f EXCEPT !.pc = "done", !.result = "EIO"]>>]
  BY <1>5 DEF KeysAnswered
<1>7. cred \in Creds(cred) /\ now + Lifetime \in Nat
  BY RequestAssumption DEF IInv, CredInv, StateTypes, RequestAssumption
<1>8. Kept(cred, u) /\ (cred.ibm => u.cred.secret = cred.secret)
  <2>1. CASE Top(t).result = Done BY <1>6, <1>7, <2>1, AnswersKeep
  <2>2. CASE Top(t).result # Done BY <1>6, <1>7, <2>2, KeysSet, FineWrong
  <2> QED BY <2>1, <2>2
<1>9. CredInv' BY <1>1, <1>6, <1>8, CredKept DEF IInv
<1>10. Compatible BY <1>6, <1>8 DEF Compatible, Kept
<1>11. StateTypes' BY <1>1, TypesKept DEF IInv, StateTypes
<1>12. PICK g : g = IF u.ok THEN Signed(f, u.cred) ELSE [f EXCEPT !.pc = "done", !.result = "EIO"] OBVIOUS
<1>13. FrameInv(g) /\ g.type = f.type /\ g.code = NOTSET
  <2>1. FrameInv(f) /\ f.pc = "sign" /\ f.auth BY <1>3 DEF Two
  <2>2. CASE u.ok BY <1>12, <2>1, <2>2, SignedFrame
  <2>3. CASE ~u.ok BY <1>12, <2>1, <2>3, CannotSignFrame
  <2> QED BY <2>2, <2>3
<1>14. stack' = [stack EXCEPT ![t] = <<g>>]
  <2>1. CASE u.ok BY <1>6, <1>12, <2>1
  <2>2. CASE ~u.ok BY <1>6, <1>12, <2>2
  <2> QED BY <2>1, <2>2
<1>15. stack'[t] = <<g>> BY <1>4, <1>14
<1>16. FrameInv(g)' /\ Answer(t, g)' BY <1>10, <1>13, FrameKept, NoAnswerYet DEF Compatible
<1>17. One(t, g)' BY <1>1, <1>3, <1>13, <1>15, <1>16, NoThread DEF One, Two
<1>18. \A u2 \in Threads \ {t} : store'[u2] = store[u2] /\ (tokenLock' = u2 <=> tokenLock = u2)
  BY <1>1, <1>2, NoThread
<1>19. StacksInv' BY <1>10, <1>14, <1>17, <1>18, StackStep DEF IInv, StackInv
<1>20. \A u2 \in Threads : stack'[u2] = <<>> <=> stack[u2] = <<>> BY <1>2, <1>4, <1>14
<1>21. PhaseInv' BY <1>1, <1>20, NoThread DEF IInv, PhaseInv
<1> QED BY <1>9, <1>11, <1>19, <1>21 DEF IInv

(* An attempt that ends, wherever in its body, leaves a request in shape. *)
LEMMA EndedFrame ==
  ASSUME NEW f, FrameInv(f), f.pc = "send", NEW g, NEW p \in 0 .. Size, g = f \/ g = Moved(f, p),
         NEW code \in Int, NEW error \in Errors, NEW result \in Results,
         error # None => code \notin 200 .. 299 \/ f.type \in Judged,
         NEW h, h = Performed(f, g),
         NEW a, a = Attempted(h, code, error, result)
  PROVE  /\ FrameInv(a) /\ a.type = f.type /\ a.auth = f.auth
         /\ \/ a.pc = "done" /\ a.error = error /\ a.code = IF code = NOTSET THEN FATAL ELSE code
            \/ a.pc = "sign" /\ a.error = None /\ a.code = NOTSET
<1>1. f \in Frame({f.keys}) BY DEF FrameInv
<1>2. g \in Frame({f.keys}) /\ g.first = f.first BY <1>1 DEF Frame, Moved
<1>3. /\ g.type = f.type /\ g.hdrs = f.hdrs /\ g.infile = f.infile /\ g.auth = f.auth
      /\ g.tries = f.tries /\ g.loop = f.loop /\ g.keys = f.keys
  BY <1>1 DEF Frame, Moved
<1>4. h = [g EXCEPT !.first = Sent(f)] BY <1>2 DEF Sent, Performed
<1>5. Sent(f) \in {<<>>} \cup {<<m>> : m \in Messages} BY <1>1, MessageType, FrameFields DEF Sent
<1>6. h \in Frame({f.keys}) BY <1>2, <1>4, <1>5 DEF Frame
<1>7. /\ h.type = g.type /\ h.hdrs = g.hdrs /\ h.infile = g.infile /\ h.auth = g.auth
      /\ h.tries = g.tries /\ h.loop = g.loop /\ h.first = Sent(f) /\ h.keys = g.keys
  BY <1>2, <1>4 DEF Frame
<1>8. /\ h \in Frame({h.keys}) /\ h.type = f.type /\ h.hdrs = f.hdrs /\ h.infile = f.infile /\ h.auth = f.auth
      /\ h.tries = f.tries /\ h.loop = f.loop /\ h.first = Sent(f)
  BY <1>3, <1>6, <1>7
<1> QED BY <1>8, AttemptedFrame

(* An attempt ends: the request of the thread is finished or made again. *)
LEMMA AttemptStep ==
  ASSUME IInv, NEW t \in Threads, Perform(t), NEW f, f = Top(t), NEW g, NEW p \in 0 .. Size,
         g = f \/ g = Moved(f, p),
         NEW code \in Int, NEW error \in Errors, NEW result \in Results,
         error # None => code \notin 200 .. 299 \/ f.type \in Judged,
         stack' = Replaced(t, Attempted(Performed(f, g), code, error, result)),
         UNCHANGED <<cred, tokenLock, start>>, StateTypes', \A u \in Threads \ {t} : store'[u] = store[u],
         f.auth /\ code \in 200 .. 299 /\ error = None => DoneAtS3(t, f)'
  PROVE  IInv'
<1>1. stack[t] # <<>> /\ f.pc = "send" BY DEF Perform
<1>2. FrameInv(f) BY <1>1, TopFacts DEF IInv
<1>h. PICK h : h = Performed(f, g) OBVIOUS
<1>3. PICK a : a = Attempted(h, code, error, result) OBVIOUS
<1>4. /\ FrameInv(a) /\ a.type = f.type /\ a.auth = f.auth
      /\ \/ a.pc = "done" /\ a.error = error /\ a.code = IF code = NOTSET THEN FATAL ELSE code
         \/ a.pc = "sign" /\ a.error = None /\ a.code = NOTSET
  BY <1>1, <1>2, <1>3, <1>h, EndedFrame
<1>5. stack' = Replaced(t, a) BY <1>3, <1>h, Zenon
<1>6. Compatible BY SameCompatible, Zenon
<1>7. CredInv' BY CredUnchanged DEF IInv
<1>8. a.pc # "over" BY <1>4
<1>9. Answer(t, a)'
  <2>1. CASE a.code = NOTSET BY <2>1, NoAnswerYet
  <2>2. CASE a.pc = "done" /\ a.error = error /\ a.code = IF code = NOTSET THEN FATAL ELSE code
    <3>1. ASSUME a.auth, a.type # "CRED", a.code \in 200 .. 299, a.error = None PROVE DoneAtS3(t, a)'
      <4>1. code \in 200 .. 299 /\ error = None BY <2>2, <3>1 DEF FATAL
      <4>2. DoneAtS3(t, f)' BY <3>1, <4>1, <1>4
      <4> QED BY <4>2, <1>4 DEF DoneAtS3
    <3> QED BY <3>1 DEF Answer
  <2> QED BY <2>1, <2>2, <1>4
<1> QED BY <1>1, <1>4, <1>5, <1>6, <1>7, <1>8, <1>9, TopInv

(* What S3 did for a thread is its own. *)
LEMMA StoreTypes ==
  ASSUME IInv, NEW t \in Threads, NEW s \in Stores, Stored(t, s)
  PROVE  /\ store' \in [Threads -> Stores] /\ \A u \in Threads \ {t} : store'[u] = store[u]
         /\ (Top(t).auth => store'[t] = s)
<1>1. store \in [Threads -> Stores] BY DEF IInv, StateTypes
<1>2. CASE AtS3(t) BY <1>1, <1>2 DEF Stored
<1>3. CASE ~AtS3(t) BY <1>1, <1>3 DEF Stored, AtS3
<1> QED BY <1>2, <1>3

(* A callback writes within the range. *)
LEMMA WrittenType ==
  ASSUME NEW file \in [0 .. Size - 1 -> {"old", "right", "wrong"}], NEW p, NEW n, NEW good
  PROVE  Written(file, p, n, good) \in [0 .. Size - 1 -> {"old", "right", "wrong"}]
  BY DEF Written

(* S3 acts on the whole body, and a whole range goes to the file, when the attempt began at the start. *)
LEMMA ActedStore ==
  ASSUME IInv, NEW t \in Threads, NEW f, f.pos = 0
  PROVE  /\ Acted(t, f) \in Stores
         /\ IF f.type = "GET" THEN \A i \in DOMAIN Acted(t, f).file : Acted(t, f).file[i] = "right"
            ELSE Acted(t, f).times > 0 /\ Acted(t, f).whole
<1>1. PICK s \in Stores : s = store[t] BY DEF IInv, StateTypes
<1>2. PICK n : n = IF s.times = 2 THEN 2 ELSE s.times + 1 OBVIOUS
<1>3. PICK w : w = IF f.type = "GET" THEN Written(s.file, 0, Size, TRUE) ELSE s.file OBVIOUS
<1>4. s.times \in 0 .. 2 /\ s.file \in [0 .. Size - 1 -> {"old", "right", "wrong"}] BY DEF Stores
<1>5. n \in 1 .. 2 BY <1>2, <1>4
<1>6. w \in [0 .. Size - 1 -> {"old", "right", "wrong"}] BY <1>3, <1>4, WrittenType
<1>7. Acted(t, f) = [s EXCEPT !.times = n, !.whole = TRUE, !.file = w] BY <1>1, <1>2, <1>3 DEF Acted, Stores
<1>8. n \in 0 .. 2 /\ TRUE \in BOOLEAN BY <1>5
<1>9. Acted(t, f) \in Stores BY <1>6, <1>7, <1>8 DEF Stores
<1>10. Acted(t, f).times = n /\ Acted(t, f).whole = TRUE /\ Acted(t, f).file = w BY <1>7 DEF Stores
<1>11. f.type = "GET" => \A i \in DOMAIN w : w[i] = "right"
  BY <1>3, <1>4, RequestAssumption DEF Written, RequestAssumption
<1> QED BY <1>5, <1>9, <1>10, <1>11

(* The results of RequestPerform. *)
LEMMA ResultType == \A op, code, error : ResultOf(op, code, error) \in Results
  BY DEF ResultOf, Results

(* The end of an attempt keeps the invariant when a success that was answered is one. *)
LEMMA EndedStep ==
  ASSUME IInv, NEW t \in Threads, Perform(t), NEW f, f = Top(t),
         NEW code \in Int, NEW error \in Errors, NEW result \in Results, NEW curlcode \in {"OK", "BAD"},
         Ended(t, f, code, error, result, curlcode),
         error # None => code \notin 200 .. 299 \/ f.type \in Judged,
         store' \in [Threads -> Stores], \A u \in Threads \ {t} : store'[u] = store[u], bundle' \in BOOLEAN,
         f.auth /\ code \in 200 .. 299 /\ error = None => DoneAtS3(t, f)'
  PROVE  IInv'
<1>1. stack' = Replaced(t, Attempted(Performed(f, f), code, error, result)) BY DEF Ended, Performed
<1>2. UNCHANGED <<cred, tokenLock, apiToken, setup, start, jobs, now>> BY DEF Ended, IdleStart
<1>3. curl' \in [Threads -> {"OK", "BAD"}]
  <2>1. curl \in [Threads -> {"OK", "BAD"}] BY DEF IInv, StateTypes
  <2>2. curl' = IF AtS3(t) THEN [curl EXCEPT ![t] = curlcode] ELSE curl BY DEF Ended
  <2> QED BY <2>1, <2>2
<1>4. StateTypes' BY <1>2, <1>3, TypesKept DEF IInv, StateTypes
<1>5. 0 \in 0 .. Size BY RequestAssumption DEF RequestAssumption
<1> QED BY <1>1, <1>2, <1>4, <1>5, AttemptStep

(* An attempt that is sent begins at the start. *)
LEMMA SendFacts ==
  ASSUME IInv, NEW t \in Threads, Perform(t)
  PROVE  /\ FrameInv(Top(t)) /\ Top(t).pos = 0 /\ Top(t).length = Size
         /\ store \in [Threads -> Stores] /\ store[t].file \in [0 .. Size - 1 -> {"old", "right", "wrong"}]
<1>1. FrameInv(Top(t)) /\ Top(t).pc = "send" BY TopFacts DEF IInv, Perform
<1> QED BY <1>1 DEF FrameInv, IInv, StateTypes, Stores

(* S3 acts on the whole and says so. *)
LEMMA SucceedsStep ==
  ASSUME IInv, NEW t \in Threads, Succeeds(t)
  PROVE  IInv'
<1>1. PICK f : f = Top(t) OBVIOUS
<1>2. Perform(t) /\ Stored(t, Acted(t, f)) /\ Ended(t, f, 200, None, Done, "OK") /\ UNCHANGED bundle
  BY <1>1 DEF Succeeds
<1>3. f.pos = 0 BY <1>1, <1>2, SendFacts
<1>4. PICK s : s = Acted(t, f) OBVIOUS
<1>5. s \in Stores /\ IF f.type = "GET" THEN \A i \in DOMAIN s.file : s.file[i] = "right" ELSE s.times > 0 /\ s.whole
  BY <1>3, <1>4, ActedStore
<1>6. /\ store' \in [Threads -> Stores] /\ \A u \in Threads \ {t} : store'[u] = store[u]
      /\ (f.auth => store'[t] = s)
  BY <1>1, <1>2, <1>4, <1>5, StoreTypes
<1>7. f.auth => DoneAtS3(t, f)' BY <1>5, <1>6 DEF DoneAtS3
<1>8. 200 \in Int /\ None \in Errors /\ Done \in Results /\ "OK" \in {"OK", "BAD"} BY DEF Errors, Results
<1>9. bundle' \in BOOLEAN BY <1>2 DEF IInv, StateTypes
<1> QED BY <1>1, <1>2, <1>6, <1>7, <1>8, <1>9, EndedStep

(* S3 says 200 with an error in the body: the error goes with the answer. *)
LEMMA SucceedsWithErrorStep ==
  ASSUME IInv, NEW t \in Threads, SucceedsWithError(t)
  PROVE  IInv'
<1>1. PICK f : f = Top(t) OBVIOUS
<1>2. PICK r \in Results : r = ResultOf(f.opts.verb, 200, "InternalError") BY ResultType
<1>3. Perform(t) /\ f.type \in Judged /\ Ended(t, f, 200, "InternalError", r, "OK") /\ UNCHANGED <<store, bundle>>
  BY <1>1, <1>2 DEF SucceedsWithError, Judged
<1>4. store' \in [Threads -> Stores] /\ \A u \in Threads \ {t} : store'[u] = store[u] BY <1>3, SendFacts
<1>5. 200 \in Int /\ "InternalError" \in Errors /\ "OK" \in {"OK", "BAD"} /\ "InternalError" # None
  BY DEF Errors, None
<1>6. bundle' \in BOOLEAN BY <1>3 DEF IInv, StateTypes
<1> QED BY <1>1, <1>3, <1>4, <1>5, <1>6, EndedStep

(* S3 refuses with a code that is no success. *)
LEMMA RefusedStep ==
  ASSUME IInv, NEW t \in Threads, Refused(t)
  PROVE  IInv'
<1>1. PICK f : f = Top(t) OBVIOUS
<1>2. PICK code \in Codes, error \in {None, "EntityTooLarge", "region", "endpoint", "sse"} :
        Ended(t, f, code, error, ResultOf(f.opts.verb, code, error), "OK")
  BY <1>1 DEF Refused
<1>3. PICK r \in Results : r = ResultOf(f.opts.verb, code, error) BY ResultType
<1>4. Perform(t) /\ UNCHANGED bundle BY DEF Refused
<1>5. PICK s : s = [store[t] EXCEPT !.file = IF f.type = "GET" THEN Written(@, f.pos, 1, FALSE) ELSE @] OBVIOUS
<1>6. Stored(t, s) BY <1>1, <1>5 DEF Refused
<1>7. s \in Stores
  <2>1. PICK o \in Stores : o = store[t] BY <1>4, SendFacts
  <2>2. PICK w : w = IF f.type = "GET" THEN Written(o.file, f.pos, 1, FALSE) ELSE o.file OBVIOUS
  <2>3. w \in [0 .. Size - 1 -> {"old", "right", "wrong"}] BY <2>2, WrittenType DEF Stores
  <2>4. s = [o EXCEPT !.file = w] BY <1>5, <2>1, <2>2
  <2> QED BY <2>3, <2>4 DEF Stores
<1>8. store' \in [Threads -> Stores] /\ \A u \in Threads \ {t} : store'[u] = store[u] BY <1>6, <1>7, StoreTypes
<1>9. code \in Int /\ code \notin 200 .. 299 BY <1>2, RequestAssumption DEF RequestAssumption
<1>10. error \in Errors /\ "OK" \in {"OK", "BAD"} BY <1>2 DEF Errors
<1>11. bundle' \in BOOLEAN BY <1>4 DEF IInv, StateTypes
<1>12. Ended(t, f, code, error, r, "OK") BY <1>2, <1>3
<1> QED BY <1>1, <1>4, <1>8, <1>9, <1>10, <1>11, <1>12, EndedStep

(* The connection breaks: the position may be anywhere, and the next attempt goes back to the start. *)
LEMMA BreaksStep ==
  ASSUME IInv, NEW t \in Threads, Breaks(t)
  PROVE  IInv'
<1>1. PICK f : f = Top(t) OBVIOUS
<1>2. Perform(t) /\ UNCHANGED <<bundle, cred, tokenLock, apiToken, setup, start, jobs, now>> BY DEF Breaks, IdleStart
<1>3. f.pos = 0 BY <1>1, <1>2, SendFacts
<1>4. PICK p : /\ p \in IF HasBody(f) \/ f.type = "GET" THEN f.pos .. Size ELSE {f.pos}
               /\ stack' = Replaced(t, Attempted(Performed(f, Moved(f, p)), NOTSET, None, again))
               /\ Stored(t, [store[t] EXCEPT !.file = IF f.type = "GET" THEN Written(@, f.pos, p - f.pos, TRUE) ELSE @])
  BY <1>1 DEF Breaks, Performed, Moved
<1>5. p \in 0 .. Size BY <1>3, <1>4, RequestAssumption DEF RequestAssumption
<1>6. PICK s : s = [store[t] EXCEPT !.file = IF f.type = "GET" THEN Written(@, f.pos, p - f.pos, TRUE) ELSE @] OBVIOUS
<1>7. s \in Stores
  <2>1. PICK o \in Stores : o = store[t] BY <1>2, SendFacts
  <2>2. PICK w : w = IF f.type = "GET" THEN Written(o.file, f.pos, p - f.pos, TRUE) ELSE o.file OBVIOUS
  <2>3. w \in [0 .. Size - 1 -> {"old", "right", "wrong"}] BY <2>2, WrittenType DEF Stores
  <2>4. s = [o EXCEPT !.file = w] BY <1>6, <2>1, <2>2
  <2> QED BY <2>3, <2>4 DEF Stores
<1>8. Stored(t, s) BY <1>4, <1>6
<1>9. store' \in [Threads -> Stores] /\ \A u \in Threads \ {t} : store'[u] = store[u] BY <1>7, <1>8, StoreTypes
<1>10. curl' \in [Threads -> {"OK", "BAD"}]
  <2>1. curl \in [Threads -> {"OK", "BAD"}] BY DEF IInv, StateTypes
  <2>2. curl' = IF AtS3(t) THEN [curl EXCEPT ![t] = "BAD"] ELSE curl BY DEF Breaks
  <2> QED BY <2>1, <2>2
<1>11. StateTypes' BY <1>2, <1>9, <1>10, TypesKept DEF IInv, StateTypes
<1>12. NOTSET \in Int /\ NOTSET \notin 200 .. 299 /\ None \in Errors /\ again \in Results BY DEF NOTSET, Errors, Results
<1>13. PICK g : g = Moved(f, p) OBVIOUS
<1>14. stack' = Replaced(t, Attempted(Performed(f, g), NOTSET, None, again)) BY <1>4, <1>13
<1> QED BY <1>1, <1>2, <1>5, <1>9, <1>11, <1>12, <1>13, <1>14, AttemptStep

(* S3 acted and nobody knows. *)
LEMMA AnswerLostStep ==
  ASSUME IInv, NEW t \in Threads, AnswerLost(t)
  PROVE  IInv'
<1>1. PICK f : f = Top(t) OBVIOUS
<1>2. Perform(t) /\ Stored(t, Acted(t, f)) /\ Ended(t, f, NOTSET, None, again, "BAD") /\ UNCHANGED bundle
  BY <1>1 DEF AnswerLost
<1>3. f.pos = 0 BY <1>1, <1>2, SendFacts
<1>4. PICK s \in Stores : s = Acted(t, f) BY <1>3, ActedStore
<1>5. store' \in [Threads -> Stores] /\ \A u \in Threads \ {t} : store'[u] = store[u] BY <1>2, <1>4, StoreTypes
<1>6. NOTSET \in Int /\ NOTSET \notin 200 .. 299 /\ None \in Errors /\ again \in Results /\ "BAD" \in {"OK", "BAD"}
  BY DEF NOTSET, Errors, Results
<1>7. bundle' \in BOOLEAN BY <1>2 DEF IInv, StateTypes
<1> QED BY <1>1, <1>2, <1>5, <1>6, <1>7, EndedStep

(* The certificate is not known. *)
LEMMA DistrustedStep ==
  ASSUME IInv, NEW t \in Threads, Distrusted(t)
  PROVE  IInv'
<1>1. PICK f : f = Top(t) OBVIOUS
<1>2. PICK found \in BOOLEAN : /\ bundle' = (bundle \/ found)
                               /\ Ended(t, f, NOTSET, None, IF found THEN again ELSE "EIO", "BAD")
  BY <1>1 DEF Distrusted
<1>3. PICK r \in Results : r = IF found THEN again ELSE "EIO" BY DEF Results
<1>4. Ended(t, f, NOTSET, None, r, "BAD") BY <1>2, <1>3
<1>5. Perform(t) /\ UNCHANGED store BY DEF Distrusted
<1>6. store' \in [Threads -> Stores] /\ \A u \in Threads \ {t} : store'[u] = store[u] BY <1>5, SendFacts
<1>7. NOTSET \in Int /\ NOTSET \notin 200 .. 299 /\ None \in Errors /\ "BAD" \in {"OK", "BAD"}
  BY DEF NOTSET, Errors
<1>8. bundle' \in BOOLEAN BY <1>2 DEF IInv, StateTypes
<1> QED BY <1>1, <1>4, <1>5, <1>6, <1>7, <1>8, EndedStep

(* Sending, with every outcome. *)
LEMMA SendStep ==
  ASSUME IInv, NEW t \in Threads, Send(t)
  PROVE  IInv'
BY SucceedsStep, SucceedsWithErrorStep, RefusedStep, BreaksStep, AnswerLostStep, DistrustedStep DEF Send

(* The only request of a thread is replaced by another, or its first one is made. *)
LEMMA OneStep ==
  ASSUME IInv, NEW t \in Threads, NEW g, stack' = [stack EXCEPT ![t] = <<g>>], FrameInv(g), Compatible,
         Answer(t, g)', g.type # "IAMCRED", tokenLock # t, tokenLock' = tokenLock,
         \A u \in Threads \ {t} : store'[u] = store[u], StateTypes', CredInv',
         t = Main => start # "mounted" /\ start' \in {"role", "cred", "check"},
         t # Main => start = "mounted" /\ start' = start
  PROVE  IInv'
<1>1. DOMAIN stack = Threads BY DEF IInv, StacksInv
<1>2. stack'[t] = <<g>> BY <1>1
<1>3. FrameInv(g)' BY FrameKept DEF Compatible
<1>4. One(t, g)' BY <1>2, <1>3 DEF One
<1>5. StacksInv' BY <1>4, StackStep DEF IInv, StackInv
<1>6. \A u \in Threads \ {t} : stack'[u] = stack[u] BY <1>1
<1>7. PhaseInv' BY <1>6, NoThread DEF IInv, PhaseInv
<1> QED BY <1>5, <1>7 DEF IInv

(* A thread has no request any more. *)
LEMMA NoneStep ==
  ASSUME IInv, NEW t \in Threads, stack' = [stack EXCEPT ![t] = <<>>], Compatible, tokenLock # t, tokenLock' = tokenLock,
         \A u \in Threads \ {t} : store'[u] = store[u], StateTypes', CredInv',
         t = Main => start # "mounted", t # Main => start' = start
  PROVE  IInv'
<1>1. DOMAIN stack = Threads BY DEF IInv, StacksInv
<1>2. stack'[t] = <<>> BY <1>1
<1>3. StackInv(t)' BY <1>2 DEF StackInv
<1>5. StacksInv' BY <1>3, StackStep DEF IInv
<1>6. \A u \in Threads \ {t} : stack'[u] = stack[u] BY <1>1
<1>7. PhaseInv' BY <1>2, <1>6, NoThread DEF IInv, PhaseInv
<1> QED BY <1>5, <1>7 DEF IInv

(* A thread without a request holds no lock. *)
LEMMA IdleThread ==
  ASSUME IInv, NEW t \in Threads, stack[t] = <<>>
  PROVE  tokenLock # t
<1>1. StackInv(t) BY DEF IInv, StacksInv
<1>2. ASSUME tokenLock = t PROVE FALSE
  <2>1. PICK f, h : Two(t, f, h) BY <1>1, <1>2 DEF StackInv, One
  <2>2. stack[t] = <<f, h>> BY <2>1 DEF Two
  <2>3. Len(stack[t]) = 2 BY <2>2
  <2> QED BY <2>3
<1> QED BY <1>2

(* A thread with one request holds no lock. *)
LEMMA OnlyRequest ==
  ASSUME IInv, NEW t \in Threads, Len(stack[t]) = 1
  PROVE  /\ stack[t] # <<>> /\ tokenLock # t /\ One(t, Top(t)) /\ FrameInv(Top(t)) /\ DOMAIN stack = Threads
         /\ \A g : Replaced(t, g) = [stack EXCEPT ![t] = <<g>>]
         /\ t = Main => start # "mounted" /\ start \in {"role", "cred", "check"}
         /\ t # Main => start = "mounted"
<1>1. stack[t] # <<>> OBVIOUS
<1>2. tokenLock # t /\ One(t, Top(t)) /\ FrameInv(Top(t)) BY <1>1, TopFacts DEF IInv
<1>3. DOMAIN stack = Threads /\ stack[t] = <<Top(t)>> BY <1>2 DEF IInv, StacksInv, One
<1>4. \A g : Replaced(t, g) = [stack EXCEPT ![t] = <<g>>] BY <1>3, ReplacedOne
<1>5. /\ t = Main => start # "mounted" /\ start \in {"role", "cred", "check"}
      /\ t # Main => start = "mounted"
  BY <1>1 DEF IInv, PhaseInv, Threads
<1> QED BY <1>1, <1>2, <1>3, <1>4, <1>5

(* The SSE-C key a HEAD is tried with is part of no message. *)
LEMMA KeyFrame ==
  ASSUME NEW r, FrameInv(r), r.first = <<>>, r.pc = "sign", NEW k \in Nat, NEW g, g = [r EXCEPT !.key = k]
  PROVE  FrameInv(g) /\ g.type = r.type /\ g.code = r.code
<1>1. r \in Frame({r.keys}) BY DEF FrameInv
<1>2. g \in Frame({r.keys}) BY <1>1 DEF Frame
<1>3. /\ g.type = r.type /\ g.opts = r.opts /\ g.hdrs = r.hdrs /\ g.infile = r.infile /\ g.pc = r.pc
      /\ g.tries = r.tries /\ g.pos = r.pos /\ g.length = r.length /\ g.first = r.first /\ g.keys = r.keys
      /\ g.code = r.code /\ g.error = r.error /\ g.result = r.result /\ g.loop = r.loop
  BY <1>1 DEF Frame
<1>4. g.auth = r.auth BY <1>1 DEF Frame
<1>5. FirstAttempt(r) BY DEF FrameInv
<1>6. MadeAgain(g, r.opts) BY <1>1, <1>3, <1>5, FrameFields, MadeAgainFor DEF FirstAttempt
<1>7. FirstAttempt(g) BY <1>3, <1>4, <1>5, <1>6 DEF FirstAttempt
<1>8. FrameInv(g) BY <1>2, <1>3, <1>4, <1>7 DEF FrameInv
<1> QED BY <1>3, <1>8

(* A request that was not sent has no first message to forget. *)
LEMMA FreshFrame ==
  ASSUME NEW r, FrameInv(r), r.first = <<>>
  PROVE  [r EXCEPT !.first = <<>>] = r
<1>1. r \in Frame({r.keys}) BY DEF FrameInv
<1> QED BY <1>1 DEF Frame

(* HeadRequest tries the next key with a new request. *)
LEMMA NextKeyStep ==
  ASSUME IInv, NEW t \in Threads, NextKey(t)
  PROVE  IInv'
<1>1. PICK f : f = Top(t) OBVIOUS
<1>2. /\ Len(stack[t]) = 1 /\ f.type = "HEAD"
      /\ stack' = [stack EXCEPT ![t] = <<[Request(PreHeadRequest(f.key + 1), TRUE, f.loop) EXCEPT !.key = f.key + 1]>>]
      /\ UNCHANGED <<cred, tokenLock, apiToken, bundle, curl, store, setup, start, jobs, now>>
  BY <1>1 DEF NextKey, IdleStart
<1>3. FrameInv(f) /\ tokenLock # t BY <1>1, <1>2, OnlyRequest
<1>4. f.key + 1 \in Nat /\ f.loop \in Int
  <2>1. f \in Frame({f.keys}) BY <1>3 DEF FrameInv
  <2>2. f.key \in Nat /\ f.loop \in Int BY <2>1, FrameFields
  <2> QED BY <2>2
<1>5. PICK k \in Nat : k = f.key + 1 BY <1>4
<1>6. PICK b : b = PreHeadRequest(k) OBVIOUS
<1>7. Sound(b) /\ b.type = "HEAD"
  <2>1. Sound(b) BY <1>6, BuildersSound
  <2>2. b.type = "HEAD" BY <1>6 DEF PreHeadRequest, Built
  <2> QED BY <2>1, <2>2
<1>8. PICK r : r = Request(b, TRUE, f.loop) OBVIOUS
<1>9. FrameInv(r) /\ r.type = "HEAD" /\ r.pc = "sign" /\ r.code = NOTSET /\ r.first = <<>>
  BY <1>4, <1>7, <1>8, NewRequest
<1>10. PICK g : g = [r EXCEPT !.key = k] OBVIOUS
<1>11. FrameInv(g) /\ g.type = "HEAD" /\ g.code = NOTSET BY <1>9, <1>10, KeyFrame
<1>12. stack' = [stack EXCEPT ![t] = <<g>>] BY <1>2, <1>5, <1>6, <1>8, <1>10
<1>13. Compatible /\ Answer(t, g)' BY <1>2, <1>11, SameCompatible, NoAnswerYet
<1>14. CredInv' BY <1>2, CredUnchanged DEF IInv
<1>15. StateTypes' BY <1>2 DEF StateTypes, IInv, SetupShape
<1> QED BY <1>2, <1>3, <1>11, <1>12, <1>13, <1>14, <1>15, OneStep, OnlyRequest

(* The request a looping worker makes again is a new one. *)
LEMMA RepeatFrame ==
  ASSUME NEW t, NEW f, f.type \in {"HEAD", "GET", "COPYMULTIPOST"}, f.loop \in Int
  PROVE  LET g == Restarted(t, f) IN FrameInv(g) /\ g.type # "IAMCRED" /\ g.code = NOTSET
<1> DEFINE b == CASE f.type = "HEAD"          -> PreHeadRequest(0)
                  [] f.type = "GET"           -> PreGetObjectRequest
                  [] f.type = "COPYMULTIPOST" -> CopyPart
           g == Restarted(t, f)
<1>1. b \in {PreHeadRequest(0), PreGetObjectRequest, CopyPart} OBVIOUS
<1>2. Sound(b) BY <1>1, BuildersSound
<1>3. b.type \in {"HEAD", "GET", "COPYMULTIPOST"}
  BY <1>1, BuiltFields DEF PreHeadRequest, PreGetObjectRequest, CopyPart
<1>4. g = [Request(b, TRUE, f.loop + 1) EXCEPT !.first = <<>>] BY DEF Restarted
<1> HIDE DEF b, g
<1>5. f.loop + 1 \in Int OBVIOUS
<1>6. PICK r : r = Request(b, TRUE, f.loop + 1) OBVIOUS
<1>7. FrameInv(r) /\ r.type = b.type /\ r.code = NOTSET /\ r.first = <<>>
  BY <1>2, <1>3, <1>5, <1>6, NewRequest, ZenonT(30)
<1>8. g = r BY <1>4, <1>6, <1>7, FreshFrame
<1> QED BY <1>3, <1>7, <1>8 DEF g

(* The caller's view of the answer: a result, the verdict of the loop, or a new round of it. *)
LEMMA AnsweredStep ==
  ASSUME IInv, NEW t \in Threads, Answered(t)
  PROVE  IInv'
<1>1. PICK h : h = Top(t) OBVIOUS
<1>2. PICK f : f = Mapped(h) OBVIOUS
<1>3. PICK v : v = IF f.loop = -1 THEN "result" ELSE LoopVerdict(f, curl[t]) OBVIOUS
<1>4. /\ Len(stack[t]) = 1 /\ h.pc = "done"
      /\ stack' = CASE v = "result"  -> Replaced(t, [f EXCEPT !.pc = "over"])
                    [] v = "success" -> Replaced(t, [f EXCEPT !.pc = "over", !.result = Done])
                    [] v = "failure" -> Replaced(t, [f EXCEPT !.pc = "over", !.result = IF @ = Done THEN "EIO" ELSE @])
                    [] v = "repeat"  -> Replaced(t, Restarted(t, f))
      /\ UNCHANGED <<cred, tokenLock, apiToken, bundle, curl, store, setup, start, jobs, now>>
  BY <1>1, <1>2, <1>3 DEF Answered, Over, IdleStart
<1>5. FrameInv(h) /\ tokenLock # t /\ One(t, h) BY <1>1, <1>4, OnlyRequest
<1>6. h \in Frame({h.keys}) BY <1>5 DEF FrameInv
<1>7. f \in Frame({h.keys}) /\ f.loop = h.loop /\ f.type = h.type BY <1>2, <1>6 DEF Mapped, Frame, Results
<1>8. v \in {"result", "success", "failure", "repeat"} /\ (v # "result" => f.loop # -1)
  BY <1>3 DEF LoopVerdict
<1>9. CredInv' BY <1>4, CredUnchanged DEF IInv
<1>10. StateTypes' BY <1>4 DEF StateTypes, IInv, SetupShape
<1>11. Compatible BY <1>4, SameCompatible
<1>12. CASE v # "repeat"
  <2>1. PICK r : r = IF v = "result" THEN f.result ELSE IF v = "success" THEN Done
                     ELSE IF f.result = Done THEN "EIO" ELSE f.result
    OBVIOUS
  <2>2. r \in Results BY <2>1, <1>7 DEF Frame, Results
  <2>3. PICK g : g = [f EXCEPT !.pc = "over", !.result = r] OBVIOUS
  <2>4. stack' = Replaced(t, g)
    <3>1. CASE v = "result"
      <4>1. r = f.result BY <2>1, <3>1
      <4>2. g = [f EXCEPT !.pc = "over"] BY <2>3, <4>1, <1>7 DEF Frame
      <4> QED BY <4>2, <3>1, <1>4
    <3>2. CASE v = "success" BY <3>2, <2>1, <2>3, <1>4
    <3>3. CASE v = "failure"
      <4>1. g = [f EXCEPT !.pc = "over", !.result = IF @ = Done THEN "EIO" ELSE @] BY <3>3, <2>1, <2>3, <1>7 DEF Frame
      <4> QED BY <4>1, <3>3, <1>4
    <3> QED BY <3>1, <3>2, <3>3, <1>8, <1>12
  <2>5. h.loop # -1 \/ r = Mapped(h).result BY <2>1, <1>2, <1>7, <1>8
  <2>6. g = [Mapped(h) EXCEPT !.pc = "over", !.result = r] BY <1>2, <2>3
  <2>7. FrameInv(g) /\ g.type = h.type /\ g.auth = h.auth /\ g.code = h.code /\ g.error = h.error
    BY <1>4, <1>5, <2>2, <2>5, <2>6, OverFrame
  <2>8. Answer(t, g)'
    <3>1. Answer(t, h) BY <1>5 DEF One
    <3> QED BY <3>1, <2>7, <1>4 DEF Answer, DoneAtS3
  <2>9. g.type # "IAMCRED" BY <2>7, <1>5 DEF One
  <2>10. stack' = [stack EXCEPT ![t] = <<g>>] BY <2>4, <1>4, OnlyRequest
  <2> QED BY <1>4, <1>5, <1>9, <1>10, <1>11, <2>7, <2>8, <2>9, <2>10, OneStep, OnlyRequest
<1>13. CASE v = "repeat"
  <2>1. PICK g : g = Restarted(t, f) OBVIOUS
  <2>2. f.type \in {"HEAD", "GET", "COPYMULTIPOST"} /\ f.loop \in Int
    BY <1>5, <1>7, <1>8, <1>13, FrameFields DEF FrameInv
  <2>3. FrameInv(g) /\ g.type # "IAMCRED" /\ g.code = NOTSET BY <2>1, <2>2, RepeatFrame
  <2>4. Answer(t, g)' BY <2>3, NoAnswerYet
  <2>5. stack' = [stack EXCEPT ![t] = <<g>>] BY <2>1, <1>4, <1>13, OnlyRequest
  <2> QED BY <1>4, <1>5, <1>9, <1>10, <1>11, <2>3, <2>4, <2>5, OneStep, OnlyRequest
<1> QED BY <1>12, <1>13

(* S3 has done nothing for a new request. *)
LEMMA NewStoreType == NewStore \in Stores
  BY DEF NewStore, NewFile, Stores

(* A worker takes an instruction, and its request is new. *)
LEMMA InstructStep ==
  ASSUME IInv, NEW w \in Workers, Instruct(w)
  PROVE  IInv'
<1>1. PICK j \in setup.jobs[w] : stack' = [stack EXCEPT ![w] = <<Request(j.built, TRUE, j.loop)>>] BY DEF Instruct
<1>2. /\ start = "mounted" /\ stack[w] = <<>> /\ jobs[w] < MaxJobs
      /\ store' = [store EXCEPT ![w] = NewStore] /\ jobs' = [jobs EXCEPT ![w] = @ + 1]
      /\ UNCHANGED <<setup, start, cred, tokenLock, apiToken, bundle, curl, now>>
  BY DEF Instruct
<1>3. j \in Jobs BY DEF IInv, StateTypes, SetupShape
<1>4. PICK b, l : b = j.built /\ l = j.loop OBVIOUS
<1>5. Sound(b) /\ l \in Int /\ (l # -1 => b.type \in {"HEAD", "GET", "COPYMULTIPOST"}) /\ b.type # "IAMCRED"
  BY <1>3, <1>4, JobsSound
<1>6. PICK g : g = Request(b, TRUE, l) OBVIOUS
<1>7. FrameInv(g) /\ g.type = b.type /\ g.code = NOTSET BY <1>5, <1>6, NewRequest
<1>8. stack' = [stack EXCEPT ![w] = <<g>>] BY <1>1, <1>4, <1>6
<1>9. w \in Threads /\ w # Main BY NoThread
<1>11. tokenLock # w BY <1>2, <1>9, IdleThread
<1>12. Compatible /\ Answer(w, g)' BY <1>2, <1>7, SameCompatible, NoAnswerYet
<1>13. CredInv' BY <1>2, CredUnchanged DEF IInv
<1>14. store \in [Threads -> Stores] /\ jobs \in [Workers -> 0 .. MaxJobs] BY DEF IInv, StateTypes
<1>15. store' \in [Threads -> Stores] /\ \A u \in Threads \ {w} : store'[u] = store[u]
  BY <1>2, <1>9, <1>14, NewStoreType
<1>16. jobs[w] + 1 \in 0 .. MaxJobs BY <1>2, <1>14, RequestAssumption DEF RequestAssumption
<1>17. jobs' \in [Workers -> 0 .. MaxJobs] BY <1>2, <1>14, <1>16
<1>18. StateTypes' BY <1>2, <1>15, <1>17 DEF StateTypes, IInv, SetupShape
<1> QED BY <1>2, <1>5, <1>7, <1>8, <1>9, <1>11, <1>12, <1>13, <1>15, <1>18, OneStep

(* A worker is done with its instruction. *)
LEMMA EndStep ==
  ASSUME IInv, NEW w \in Workers, End(w)
  PROVE  IInv'
<1>1. /\ Len(stack[w]) = 1 /\ stack' = [stack EXCEPT ![w] = <<>>]
      /\ UNCHANGED <<cred, tokenLock, apiToken, bundle, curl, store, setup, start, jobs, now>>
  BY DEF End, IdleStart
<1>2. w \in Threads /\ w # Main BY NoThread
<1>3. tokenLock # w BY <1>1, <1>2, OnlyRequest
<1>4. CredInv' BY <1>1, CredUnchanged DEF IInv
<1>5. StateTypes' BY <1>1 DEF StateTypes, IInv, SetupShape
<1> QED BY <1>1, <1>2, <1>3, <1>4, <1>5, SameCompatible, NoneStep

(* A request whose caller has the result is the only one of its thread. *)
LEMMA OverRequest ==
  ASSUME IInv, NEW t \in Threads, stack[t] # <<>>, Top(t).pc = "over"
  PROVE  Len(stack[t]) = 1
<1>1. ASSUME tokenLock = t PROVE FALSE
  <2>1. PICK f : Two(t, f, Top(t)) BY <1>1, TopFacts DEF IInv
  <2> QED BY <2>1 DEF Two
<1> QED BY <1>1, TopFacts DEF IInv

(* While options are read nothing is under way. *)
LEMMA OptionsStep ==
  ASSUME IInv, start = "options", UNCHANGED <<stack, tokenLock>>, StateTypes', CredInv'
  PROVE  IInv'
<1>1. ASSUME NEW t \in Threads PROVE stack[t] = <<>> BY DEF IInv, PhaseInv, Threads
<1>2. DOMAIN stack' = Threads BY DEF IInv, StacksInv
<1>3. ASSUME NEW t \in Threads PROVE StackInv(t)'
  <2>1. tokenLock # t BY <1>1, IdleThread
  <2> QED BY <1>1, <2>1 DEF StackInv
<1>4. PhaseInv' BY <1>1, NoThread DEF PhaseInv
<1> QED BY <1>2, <1>3, <1>4 DEF IInv, StacksInv

(* The credentials stay as they are when the mount goes on. *)
LEMMA CredGoesOn ==
  ASSUME IInv, UNCHANGED cred, start \notin {"options", "exited"}
  PROVE  CredInv'
BY DEF IInv, CredInv, Creds

(* The types survive a step of the mount. *)
LEMMA MainIdleTypes ==
  ASSUME IInv, UNCHANGED <<tokenLock, apiToken, bundle, curl, store, jobs, now>>,
         start' \in {"options", "role", "cred", "check", "mounted", "exited"}, setup' \in SetupShape(setup'.machine)
  PROVE  StateTypes'
BY DEF IInv, StateTypes, SetupShape

(* An option is read, or the program exits. *)
LEMMA OptionStep == ASSUME IInv, Option PROVE IInv'
<1>1. start = "options" /\ setup.args # <<>> /\ UNCHANGED <<stack, tokenLock, apiToken, bundle, curl, store, jobs, now>>
  BY DEF Option, MainIdle
<1>2. setup \in SetupShape(setup.machine) BY DEF IInv, StateTypes
<1>3. PICK name, value : name \in OptionNames /\ name = Head(setup.args).name /\ value = Head(setup.args).value
  <2>1. Head(setup.args) \in [name : OptionNames, value : STRING] BY <1>1, <1>2, HeadTailProperties DEF SetupShape
  <2> QED BY <2>1
<1>4. PICK r : r = DetectParam(cred, name, value) OBVIOUS
<1>5. cred' = r.cred /\ start' = (IF r.ok THEN start ELSE "exited") BY <1>3, <1>4 DEF Option
<1>6. r.cred \in Creds(r.cred) /\ (r.cred.ibm => r.cred.builtin) BY <1>3, <1>4, OptionKeeps DEF IInv, CredInv
<1>7. start' \in {"options", "exited"} BY <1>1, <1>5
<1>8. CredInv' BY <1>5, <1>6, <1>7 DEF CredInv
<1>9. setup' \in SetupShape(setup'.machine)
  <2>1. PICK a : a = Tail(setup.args) OBVIOUS
  <2>2. a \in Seq([name : OptionNames, value : STRING]) BY <1>1, <1>2, <2>1, HeadTailProperties DEF SetupShape
  <2>3. setup' = [setup EXCEPT !.args = a] BY <2>1 DEF Option
  <2> QED BY <1>2, <2>2, <2>3 DEF SetupShape
<1>10. StateTypes' BY <1>1, <1>7, <1>9, MainIdleTypes
<1> QED BY <1>1, <1>8, <1>10, OptionsStep

(* The options are checked, or the program exits. *)
LEMMA ParamsStep == ASSUME IInv, Params PROVE IInv'
<1>1. start = "options" /\ UNCHANGED <<setup, stack, tokenLock, apiToken, bundle, curl, store, jobs, now>>
  BY DEF Params, MainIdle
<1>2. PICK r : r = CheckAllParams(cred, setup.machine) OBVIOUS
<1>3. cred' = r.cred /\ start' = (IF r.ok THEN "role" ELSE "exited") BY <1>2 DEF Params
<1>4. /\ r.cred \in Creds(r.cred) /\ r.cred.ibm = cred.ibm /\ r.cred.builtin = cred.builtin
      /\ r.ok => r.cred.lib = None \/ ~r.cred.builtin
  BY <1>2, ParamsKeep DEF IInv, CredInv
<1>5. CredInv' BY <1>3, <1>4 DEF IInv, CredInv
<1>6. StateTypes' BY <1>1, <1>3, MainIdleTypes DEF IInv, StateTypes
<1> QED BY <1>1, <1>5, <1>6, OptionsStep

(* The first refresh is a request without a message. *)
LEMMA CredFrameInv ==
  FrameInv(CredFrame) /\ CredFrame.type = "CRED" /\ CredFrame.code = NOTSET
<1>1. PICK b : b = Built("CRED", Opts("GET", "none", {}), {}) OBVIOUS
<1>2. Sound(b) /\ b.type = "CRED" BY <1>1, CredSound, BuiltFields
<1>l. PICK l \in Int : l = -1 OBVIOUS
<1>3. PICK r : r = Request(b, TRUE, l) OBVIOUS
<1>4. FrameInv(r) /\ r.type = "CRED" /\ r.code = NOTSET BY <1>l, <1>2, <1>3, NewRequest
<1>5. r = CredFrame BY <1>l, <1>1, <1>3 DEF CredFrame
<1> QED BY <1>4, <1>5

(* The check of the bucket. *)
LEMMA CheckFrameInv ==
  ASSUME NEW s, s.nosse \in BOOLEAN
  PROVE  FrameInv(AskCheck(s)) /\ AskCheck(s).type = "CHKBUCKET" /\ AskCheck(s).code = NOTSET
<1>1. PICK b : b = CheckBucket(s.nosse) OBVIOUS
<1>2. Sound(b) BY <1>1, CheckSound
<1>3. b.type = "CHKBUCKET" BY <1>1 DEF CheckBucket, Built
<1>l. PICK l \in Int : l = -1 OBVIOUS
<1>4. PICK r : r = Request(b, TRUE, l) OBVIOUS
<1>5. FrameInv(r) /\ r.type = "CHKBUCKET" /\ r.code = NOTSET BY <1>l, <1>2, <1>3, <1>4, NewRequest
<1>6. r = AskCheck(s) BY <1>l, <1>1, <1>4 DEF AskCheck
<1> QED BY <1>5, <1>6

(* The request for the name of the role. *)
LEMMA RoleFrameInv ==
  ASSUME IInv, NEW c, c.imds \in Nat, NEW token \in BOOLEAN
  PROVE  FrameInv(AskRole(c, token)) /\ AskRole(c, token).type = "IAMROLE" /\ AskRole(c, token).code = NOTSET
<1>1. PICK k \in BOOLEAN : k = (c.imds > 1 /\ token) OBVIOUS
<1>2. cred.ibm \in BOOLEAN BY DEF IInv, CredInv, Creds
<1>3. PICK g : g = TokenRequest(GetIAMRoleFromMetaData(k)) OBVIOUS
<1>4. FrameInv(g) /\ g.type = "IAMROLE" /\ g.code = NOTSET BY <1>2, <1>3, TokenFrames
<1>5. g = AskRole(c, token) BY <1>1, <1>3 DEF AskRole
<1> QED BY <1>4, <1>5

(* The role is asked for, after the API token where that is wanted. *)
LEMMA LoadRoleStep == ASSUME IInv, LoadRole PROVE IInv'
<1>1. start = "role" /\ stack[Main] = <<>>
      /\ UNCHANGED <<setup, cred, tokenLock, apiToken, bundle, curl, store, jobs, now>>
  BY DEF LoadRole, MainIdle
<1>2. CASE UNCHANGED stack /\ start' = "exited"
  <2>1. ASSUME NEW w \in Workers PROVE stack[w] = <<>> BY <1>1 DEF IInv, PhaseInv
  <2>2. StacksInv' BY <1>1, <1>2, SameCompatible, StacksKept DEF IInv
  <2>3. PhaseInv' BY <1>1, <1>2, <2>1 DEF PhaseInv
  <2>4. StateTypes' BY <1>1, <1>2, MainIdleTypes DEF IInv, StateTypes
  <2>5. CredInv' BY <1>1, CredGoesOn
  <2> QED BY <2>2, <2>3, <2>4, <2>5 DEF IInv
<1>3. CASE \E g : /\ stack' = [stack EXCEPT ![Main] = <<g>>] /\ start' \in {"role", "cred"}
                  /\ FrameInv(g) /\ g.type # "IAMCRED" /\ g.code = NOTSET
  <2>1. PICK g : /\ stack' = [stack EXCEPT ![Main] = <<g>>] /\ start' \in {"role", "cred"}
                 /\ FrameInv(g) /\ g.type # "IAMCRED" /\ g.code = NOTSET
    BY <1>3
  <2>2. Compatible /\ Answer(Main, g)' BY <1>1, <2>1, SameCompatible, NoAnswerYet
  <2>3. Main \in Threads /\ tokenLock # Main BY <1>1, NoThread, IdleThread
  <2>4. StateTypes' BY <1>1, <2>1, MainIdleTypes DEF IInv, StateTypes
  <2>5. CredInv' BY <1>1, CredGoesOn
  <2> QED BY <1>1, <2>1, <2>2, <2>3, <2>4, <2>5, OneStep
<1>4. CASE ~cred.loadrole
  <2>1. PICK g : g = CredFrame OBVIOUS
  <2>2. stack' = [stack EXCEPT ![Main] = <<g>>] /\ start' = "cred" BY <1>4, <2>1 DEF LoadRole
  <2>3. FrameInv(g) /\ g.type # "IAMCRED" /\ g.code = NOTSET BY <2>1, CredFrameInv
  <2> QED BY <1>3, <2>2, <2>3
<1>5. CASE cred.loadrole /\ cred.ecs /\ ~setup.machine.ecs BY <1>2, <1>5 DEF LoadRole
<1>6. CASE cred.loadrole /\ ~(cred.ecs /\ ~setup.machine.ecs)
  <2>1. PICK g : g = IF ~cred.ecs /\ ~cred.ibm /\ cred.imds > 1 THEN AskApiToken ELSE AskRole(cred, apiToken) OBVIOUS
  <2>2. stack' = [stack EXCEPT ![Main] = <<g>>] /\ start' = "role" BY <1>1, <1>6, <2>1 DEF LoadRole
  <2>3. cred.imds \in Nat /\ apiToken \in BOOLEAN /\ cred.ibm \in BOOLEAN BY DEF IInv, CredInv, Creds, StateTypes
  <2>4. FrameInv(AskApiToken) /\ AskApiToken.type = "UNSET" /\ AskApiToken.code = NOTSET BY <2>3, TokenFrames
  <2>5. FrameInv(AskRole(cred, apiToken)) /\ AskRole(cred, apiToken).type = "IAMROLE" /\ AskRole(cred, apiToken).code = NOTSET
    <3>1. PICK c, k : c = cred /\ k = apiToken OBVIOUS
    <3>2. FrameInv(AskRole(c, k)) /\ AskRole(c, k).type = "IAMROLE" /\ AskRole(c, k).code = NOTSET
      BY <2>3, <3>1, RoleFrameInv
    <3> QED BY <3>1, <3>2
  <2>6. FrameInv(g) /\ g.type # "IAMCRED" /\ g.code = NOTSET BY <2>1, <2>4, <2>5
  <2> QED BY <1>3, <2>2, <2>6
<1> QED BY <1>4, <1>5, <1>6

(* The API token has come, or not; then the role is asked for. *)
LEMMA RoleTokenAnsweredStep == ASSUME IInv, RoleTokenAnswered PROVE IInv'
<1>1. /\ start = "role" /\ stack[Main] # <<>> /\ Top(Main).pc = "over" /\ AfterApiToken(Top(Main).result)
      /\ stack' = [stack EXCEPT ![Main] = <<AskRole(cred', apiToken')>>]
      /\ UNCHANGED <<tokenLock, bundle, curl, store, setup, start, jobs, now>>
  BY DEF RoleTokenAnswered, IdleStart
<1>2. Main \in Threads /\ tokenLock # Main BY <1>1, NoThread, OverRequest, OnlyRequest
<1>3. /\ cred' \in Creds(cred') /\ cred'.ibm = cred.ibm /\ cred'.secret = cred.secret /\ cred'.lib = cred.lib
      /\ cred'.builtin = cred.builtin
  BY <1>1 DEF AfterApiToken, IInv, CredInv, Creds
<1>4. apiToken' \in BOOLEAN BY <1>1 DEF AfterApiToken, IInv, StateTypes
<1>5. CredInv' BY <1>1, <1>3 DEF IInv, CredInv
<1>6. Compatible BY <1>3 DEF Compatible
<1>7. StateTypes' BY <1>1, <1>4, TypesKept DEF IInv, StateTypes
<1>8. PICK c, k, g : c = cred' /\ k = apiToken' /\ g = AskRole(c, k) OBVIOUS
<1>9. FrameInv(g) /\ g.type = "IAMROLE" /\ g.code = NOTSET
  <2>1. c.imds \in Nat /\ k \in BOOLEAN BY <1>3, <1>4, <1>8 DEF Creds
  <2> QED BY <2>1, <1>8, RoleFrameInv
<1>10. stack' = [stack EXCEPT ![Main] = <<g>>] BY <1>1, <1>8
<1>11. Answer(Main, g)' BY <1>9, NoAnswerYet
<1> QED BY <1>1, <1>2, <1>5, <1>6, <1>7, <1>9, <1>10, <1>11, OneStep

(* The role has come, or the program exits. *)
LEMMA RoleAnsweredStep == ASSUME IInv, RoleAnswered PROVE IInv'
<1>1. /\ start = "role" /\ stack[Main] # <<>> /\ Top(Main).pc = "over"
      /\ UNCHANGED <<setup, tokenLock, apiToken, bundle, curl, store, jobs, now>>
  BY DEF RoleAnswered, MainIdle
<1>2. Main \in Threads /\ tokenLock # Main BY <1>1, NoThread, OverRequest, OnlyRequest
<1>3. PICK role, u : /\ u = (IF Top(Main).result = Done THEN SetIAMRole(cred, role) ELSE Wrong(cred))
                     /\ cred' = u.cred /\ start' = (IF u.ok THEN "cred" ELSE "exited")
                     /\ stack' = [stack EXCEPT ![Main] = IF u.ok THEN <<CredFrame>> ELSE <<>>]
  BY DEF RoleAnswered
<1>4. Kept(cred, u) /\ u.cred.secret = cred.secret
  <2>1. cred \in Creds(cred) /\ 0 \in Nat BY DEF IInv, CredInv
  <2>2. CASE Top(Main).result = Done BY <1>3, <2>1, <2>2, AnswersKeep
  <2>3. CASE Top(Main).result # Done BY <1>3, <2>1, <2>3, KeysSet, FineWrong
  <2> QED BY <2>2, <2>3
<1>5. Compatible BY <1>3, <1>4 DEF Compatible, Kept
<1>6. CredInv' BY <1>1, <1>3, <1>4 DEF IInv, CredInv, Kept
<1>7. StateTypes' BY <1>1, <1>3, MainIdleTypes DEF IInv, StateTypes
<1>8. CASE u.ok
  <2>1. PICK g : g = CredFrame OBVIOUS
  <2>2. stack' = [stack EXCEPT ![Main] = <<g>>] /\ start' = "cred" BY <1>3, <1>8, <2>1
  <2>3. FrameInv(g) /\ g.type # "IAMCRED" /\ g.code = NOTSET BY <2>1, CredFrameInv
  <2>4. Answer(Main, g)' BY <2>3, NoAnswerYet
  <2> QED BY <1>1, <1>2, <1>5, <1>6, <1>7, <2>2, <2>3, <2>4, OneStep
<1>9. CASE ~u.ok
  <2>1. stack' = [stack EXCEPT ![Main] = <<>>] BY <1>3, <1>9
  <2> QED BY <1>1, <1>2, <1>5, <1>6, <1>7, <2>1, NoneStep
<1> QED BY <1>8, <1>9

(* The keys have been refreshed, or the program exits. *)
LEMMA FirstRefreshStep == ASSUME IInv, FirstRefresh PROVE IInv'
<1>1. /\ start = "cred" /\ stack[Main] # <<>> /\ Top(Main).pc = "over"
      /\ UNCHANGED <<setup, cred, tokenLock, apiToken, bundle, curl, store, jobs, now>>
  BY DEF FirstRefresh, MainIdle
<1>2. Main \in Threads /\ tokenLock # Main BY <1>1, NoThread, OverRequest, OnlyRequest
<1>3. Compatible BY <1>1, SameCompatible
<1>4. CredInv' BY <1>1, CredGoesOn
<1>5. StateTypes' BY <1>1, MainIdleTypes DEF IInv, StateTypes, FirstRefresh
<1>6. CASE Top(Main).result = Done
  <2>1. PICK s, g : s = setup /\ g = AskCheck(s) OBVIOUS
  <2>2. stack' = [stack EXCEPT ![Main] = <<g>>] /\ start' = "check" BY <1>6, <2>1 DEF FirstRefresh
  <2>3. s.nosse \in BOOLEAN BY <2>1 DEF IInv, StateTypes, SetupShape
  <2>4. FrameInv(g) /\ g.type # "IAMCRED" /\ g.code = NOTSET BY <2>1, <2>3, CheckFrameInv
  <2>5. Answer(Main, g)' BY <2>4, NoAnswerYet
  <2> QED BY <1>1, <1>2, <1>3, <1>4, <1>5, <2>2, <2>4, <2>5, OneStep
<1>7. CASE Top(Main).result # Done
  <2>1. stack' = [stack EXCEPT ![Main] = <<>>] BY <1>7 DEF FirstRefresh
  <2> QED BY <1>1, <1>2, <1>3, <1>4, <1>5, <2>1, NoneStep
<1> QED BY <1>6, <1>7

(* What the check changes in the settings. *)
LEMMA AfterCheckType ==
  ASSUME NEW m, NEW s \in SetupShape(m), NEW code, NEW error
  PROVE  AfterCheck(s, code, error).setup \in SetupShape(m)
<1> DEFINE judged == code \in 300 .. 499
           moved  == judged /\ error = "region"
           other  == moved /\ s.host = "default" /\ ~s.region /\ s.sig \in {"V4", "V2_OR_V4"}
           first  == IF other THEN [s EXCEPT !.host = "regional"]
                     ELSE IF judged /\ error = "sse" THEN [s EXCEPT !.nosse = TRUE] ELSE s
           loops  == ~moved \/ other
           older  == ~loops /\ code \in {400, 403} /\ s.sig = "V2_OR_V4"
           later  == IF older THEN [first EXCEPT !.sig = "V2"] ELSE first
<1>1. AfterCheck(s, code, error).setup = later BY DEF AfterCheck
<1> HIDE DEF judged, moved, loops
<1>2. [s EXCEPT !.host = "regional"] \in SetupShape(m) BY DEF SetupShape
<1>3. [s EXCEPT !.nosse = TRUE] \in SetupShape(m) BY DEF SetupShape
<1>4. first \in SetupShape(m) BY <1>2, <1>3
<1> HIDE DEF first, older
<1>5. [first EXCEPT !.sig = "V2"] \in SetupShape(m) BY <1>4 DEF SetupShape
<1>6. later \in SetupShape(m) BY <1>4, <1>5
<1> QED BY <1>1, <1>6

(* The check is over: another with other settings, the mount, or the exit. *)
LEMMA CheckAnsweredStep == ASSUME IInv, CheckAnswered PROVE IInv'
<1>1. PICK f, a, after, goes :
        /\ f = Top(Main) /\ a = AfterCheck(setup, f.code, f.error)
        /\ goes = (f.result # Done /\ ~a.exits /\ a.loops)
        /\ after = IF f.result = Done THEN setup ELSE a.setup
        /\ start' = (IF goes THEN "check" ELSE IF f.result # Done /\ a.exits THEN "exited" ELSE "mounted")
        /\ setup' = (IF goes THEN after ELSE [after EXCEPT !.nosse = FALSE])
        /\ stack' = [stack EXCEPT ![Main] = IF goes THEN <<AskCheck(a.setup)>> ELSE <<>>]
  BY DEF CheckAnswered
<1>2. /\ start = "check" /\ stack[Main] # <<>> /\ Top(Main).pc = "over"
      /\ store' = [store EXCEPT ![Main] = NewStore] /\ curl' = [curl EXCEPT ![Main] = "OK"]
      /\ UNCHANGED <<cred, tokenLock, apiToken, bundle, jobs, now>>
  BY DEF CheckAnswered
<1>3. Main \in Threads /\ tokenLock # Main BY <1>2, NoThread, OverRequest, OnlyRequest
<1>4. Compatible BY <1>2, SameCompatible
<1>5. CredInv' BY <1>2, CredGoesOn
<1>6. PICK m : m = setup.machine OBVIOUS
<1>7. setup \in SetupShape(m) BY <1>6 DEF IInv, StateTypes
<1>8. a.setup \in SetupShape(m) BY <1>1, <1>7, AfterCheckType
<1>9. after \in SetupShape(m) BY <1>1, <1>7, <1>8
<1>10. [after EXCEPT !.nosse = FALSE] \in SetupShape(m) BY <1>9 DEF SetupShape
<1>11. setup' \in SetupShape(m) BY <1>1, <1>9, <1>10
<1>12. setup' \in SetupShape(setup'.machine)
  <2>1. setup'.machine = m BY <1>11 DEF SetupShape
  <2> QED BY <1>11, <2>1
<1>13. store' \in [Threads -> Stores] /\ curl' \in [Threads -> {"OK", "BAD"}]
       /\ \A u \in Threads \ {Main} : store'[u] = store[u]
  BY <1>2, <1>3, NewStoreType DEF IInv, StateTypes
<1>14. start' \in {"check", "exited", "mounted"} BY <1>1
<1>15. StateTypes' BY <1>2, <1>12, <1>13, <1>14 DEF IInv, StateTypes
<1>16. CASE goes
  <2>1. PICK s, g : s = a.setup /\ g = AskCheck(s) OBVIOUS
  <2>2. stack' = [stack EXCEPT ![Main] = <<g>>] /\ start' = "check" BY <1>1, <1>16, <2>1
  <2>3. s.nosse \in BOOLEAN BY <2>1, <1>8 DEF SetupShape
  <2>4. FrameInv(g) /\ g.type # "IAMCRED" /\ g.code = NOTSET BY <2>1, <2>3, CheckFrameInv
  <2>5. Answer(Main, g)' BY <2>4, NoAnswerYet
  <2> QED BY <1>2, <1>3, <1>4, <1>5, <1>13, <1>15, <2>2, <2>4, <2>5, OneStep
<1>17. CASE ~goes
  <2>1. stack' = [stack EXCEPT ![Main] = <<>>] BY <1>1, <1>17
  <2> QED BY <1>2, <1>3, <1>4, <1>5, <1>13, <1>15, <2>1, NoneStep
<1> QED BY <1>16, <1>17

(* Time passes. *)
LEMMA TickStep == ASSUME IInv, Tick PROVE IInv'
<1>1. now < MaxTime /\ now' = now + 1
      /\ UNCHANGED <<setup, start, cred, tokenLock, apiToken, bundle, stack, curl, store, jobs>>
  BY DEF Tick
<1>2. StateTypes'
  <2>1. now' \in 0 .. MaxTime BY <1>1, RequestAssumption DEF IInv, StateTypes, RequestAssumption
  <2> QED BY <1>1, <2>1 DEF IInv, StateTypes, SetupShape
<1>3. CredInv' BY <1>1, CredUnchanged DEF IInv
<1>4. PhaseInv' BY <1>1 DEF IInv, PhaseInv
<1>5. StacksInv' BY <1>1, SameCompatible, StacksKept DEF IInv
<1> QED BY <1>2, <1>3, <1>4, <1>5 DEF IInv

(* The invariant holds before the options are read. *)
LEMMA InitInv == Init => IInv
<1> SUFFICES ASSUME Init PROVE IInv OBVIOUS
<1>1. setup \in SetupShape(setup.machine)
  <2>1. PICK m : m = setup.machine OBVIOUS
  <2>2. setup \in [args : Seq([name : OptionNames, value : STRING]), machine : {m}, jobs : [Workers -> SUBSET Jobs],
                   host : {"default", "own"}, region : BOOLEAN, sig : {"V2", "V4", "V2_OR_V4"}, nosse : {FALSE}]
    BY <2>1, SetupAssumption DEF Init
  <2>3. setup \in SetupShape(m) BY <2>2 DEF SetupShape
  <2> QED BY <2>1, <2>3
<1>2. store \in [Threads -> Stores] BY NewStoreType DEF Init
<1>3. jobs \in [Workers -> 0 .. MaxJobs] /\ 0 \in 0 .. MaxTime BY RequestAssumption DEF Init, RequestAssumption
<1>4. StateTypes BY <1>1, <1>2, <1>3 DEF Init, StateTypes
<1>5. CredInv BY DEF Init, CredInv, NewCred, Creds
<1>6. PhaseInv BY NoThread DEF Init, PhaseInv
<1>7. StacksInv BY NoThread DEF Init, StacksInv, StackInv
<1> QED BY <1>4, <1>5, <1>6, <1>7 DEF IInv

(* And every step keeps it. *)
LEMMA NextInv == IInv /\ [Next]_vars => IInv'
<1> SUFFICES ASSUME IInv, [Next]_vars PROVE IInv' OBVIOUS
<1>1. CASE Mount
  BY <1>1, OptionStep, ParamsStep, LoadRoleStep, RoleTokenAnsweredStep, RoleAnsweredStep, FirstRefreshStep, CheckAnsweredStep
     DEF Mount
<1>2. CASE Tick BY <1>2, TickStep
<1>3. ASSUME NEW t \in Threads, Performs(t) PROVE IInv'
  BY <1>3, SignStep, SendStep, ApiTokenAnsweredStep, KeysAnsweredStep, NextKeyStep, AnsweredStep DEF Performs
<1>4. ASSUME NEW w \in Workers, Instruct(w) \/ End(w) PROVE IInv'
  BY <1>4, InstructStep, EndStep
<1>5. CASE UNCHANGED vars
  <2>1. UNCHANGED <<setup, start, cred, tokenLock, apiToken, bundle, stack, curl, store, jobs, now>> BY <1>5 DEF vars
  <2>2. StateTypes' BY <2>1 DEF IInv, StateTypes, SetupShape
  <2>3. CredInv' BY <2>1, CredUnchanged DEF IInv
  <2>4. PhaseInv' BY <2>1 DEF IInv, PhaseInv
  <2>5. StacksInv' BY <2>1, SameCompatible, StacksKept DEF IInv
  <2> QED BY <2>2, <2>3, <2>4, <2>5 DEF IInv
<1> QED BY <1>1, <1>2, <1>3, <1>4, <1>5 DEF Next

(* The invariant's view of a stack, position by position. *)
LEMMA StackShape ==
  ASSUME IInv, NEW t \in Threads
  PROVE  /\ Len(stack[t]) <= 2 /\ \A i \in DOMAIN stack[t] : FrameInv(stack[t][i])
         /\ (tokenLock = t => Len(stack[t]) = 2)
<1>1. StackInv(t) BY DEF IInv, StacksInv
<1>2. CASE stack[t] = <<>> /\ tokenLock # t BY <1>2
<1>3. CASE \E f : One(t, f)
  <2>1. PICK f : One(t, f) BY <1>3
  <2>2. stack[t] = <<f>> /\ tokenLock # t /\ FrameInv(f) BY <2>1 DEF One
  <2>3. Len(stack[t]) = 1 /\ DOMAIN stack[t] = {1} /\ stack[t][1] = f BY <2>2
  <2> QED BY <2>2, <2>3
<1>4. CASE \E f, g : Two(t, f, g)
  <2>1. PICK f, g : Two(t, f, g) BY <1>4
  <2>2. stack[t] = <<f, g>> /\ FrameInv(f) /\ FrameInv(g) BY <2>1 DEF Two
  <2>3. Len(stack[t]) = 2 /\ DOMAIN stack[t] = {1, 2} /\ stack[t][1] = f /\ stack[t][2] = g BY <2>2
  <2> QED BY <2>2, <2>3
<1> QED BY <1>1, <1>2, <1>3, <1>4 DEF StackInv

(* The types that the run checks. *)
LEMMA InvType == IInv => ReqTypeOK
<1> SUFFICES ASSUME IInv PROVE ReqTypeOK OBVIOUS
<1>1. ASSUME NEW t \in Threads
      PROVE  /\ Len(stack[t]) <= 2
             /\ \A i \in DOMAIN stack[t] : stack[t][i].tries \in 0 .. Retries - 1 /\ stack[t][i].pos \in 0 .. Size
             /\ store[t].times \in 0 .. 2 /\ store[t].file \in [0 .. Size - 1 -> {"old", "right", "wrong"}]
             /\ tokenLock = t => Len(stack[t]) = 2
  <2>1. ASSUME NEW f, FrameInv(f) PROVE f.tries \in 0 .. Retries - 1 /\ f.pos \in 0 .. Size
    <3>1. f \in Frame({f.keys}) BY <2>1 DEF FrameInv
    <3> QED BY <3>1, FrameFields
  <2>2. store[t] \in Stores BY DEF IInv, StateTypes
  <2>3. store[t].times \in 0 .. 2 /\ store[t].file \in [0 .. Size - 1 -> {"old", "right", "wrong"}] BY <2>2 DEF Stores
  <2> QED BY <2>1, <2>3, StackShape
<1> QED BY <1>1 DEF ReqTypeOK, IInv, StateTypes

(* Messages with the same fields are the same. *)
LEMMA MessagesEqual ==
  ASSUME NEW m \in Messages, NEW n \in Messages,
         m.opts = n.opts, m.hdrs = n.hdrs, m.from = n.from, m.length = n.length
  PROVE  m = n
BY DEF Messages

(* A later attempt of a request sends what the first one did. *)
LEMMA MessageAgain ==
  ASSUME NEW f, FrameInv(f), f.pc = "send", f.first # <<>>, ~Bare(f)
  PROVE  Message(f) = [f.first[1] EXCEPT !.opts.unrestricted = FALSE, !.hdrs = @ \ {"basic"}]
<1>1. f \in Frame({f.keys}) /\ f.pos = 0 /\ f.length = Size /\ LaterAttempt(f) BY DEF FrameInv
<1>2. PICK m \in Messages : f.first = <<m>> BY <1>1, FrameFields
<1>3. f.first[1] = m BY <1>2
<1>4. PICK p, h : p = m.opts /\ h = m.hdrs OBVIOUS
<1>5. p \in Options BY <1>4 DEF Messages
<1>6. Restricted(p) = f.opts BY <1>1, <1>3, <1>4 DEF LaterAttempt, MadeAgain
<1>7. [p EXCEPT !.unrestricted = FALSE] = f.opts BY <1>5, <1>6, RestrictedIsExcept
<1>8. f.hdrs = h \ {"basic"} BY <1>1, <1>3, <1>4 DEF LaterAttempt
<1>9. m.from = 0 /\ m.length = Size BY <1>1, <1>3 DEF LaterAttempt
<1>10. PICK o, g : o = f.opts /\ g = f.hdrs OBVIOUS
<1>11. [m EXCEPT !.opts.unrestricted = FALSE, !.hdrs = @ \ {"basic"}] = [m EXCEPT !.opts = o, !.hdrs = g]
  <2>1. [m.opts EXCEPT !.unrestricted = FALSE] = o BY <1>4, <1>7, <1>10
  <2>2. m.hdrs \ {"basic"} = g BY <1>4, <1>8, <1>10
  <2>3. [m EXCEPT !.opts.unrestricted = FALSE, !.hdrs = @ \ {"basic"}]
          = [m EXCEPT !.opts = [m.opts EXCEPT !.unrestricted = FALSE], !.hdrs = m.hdrs \ {"basic"}]
    BY DEF Messages
  <2> QED BY <2>1, <2>2, <2>3, Zenon
<1>12. o \in Options /\ g \in SUBSET Headers BY <1>1, <1>10, FrameFields
<1>13. PICK n : n = [m EXCEPT !.opts = o, !.hdrs = g] OBVIOUS
<1>14. n \in Messages /\ n.opts = o /\ n.hdrs = g /\ n.from = 0 /\ n.length = Size
  BY <1>9, <1>12, <1>13 DEF Messages
<1>15. Message(f) \in Messages /\ Message(f).opts = o /\ Message(f).hdrs = g /\ Message(f).from = 0
       /\ Message(f).length = Size
  BY <1>1, <1>10, MessageType
<1>16. Message(f) = n BY <1>14, <1>15, MessagesEqual
<1> QED BY <1>3, <1>11, <1>13, <1>16

(* So does every request that is under way. *)
LEMMA InvSame == IInv => SameRequestAgain
<1> SUFFICES ASSUME IInv, NEW f \in Frames, f.pc = "send", f.first # <<>>,
                    ~(f.type = "IAMCRED" /\ cred.ibm /\ cred.secret = None)
             PROVE  Message(f) = [f.first[1] EXCEPT !.opts.unrestricted = FALSE, !.hdrs = @ \ {"basic"}]
  BY DEF SameRequestAgain
<1>1. FrameInv(f) BY StackShape DEF Frames
<1> QED BY <1>1, MessageAgain DEF Bare

(* A success that was answered is one. *)
LEMMA InvSuccess == IInv => SuccessMeansDone
<1> SUFFICES ASSUME IInv, NEW t \in Threads, stack[t] # <<>>, Top(t).pc = "over", NEW f, f = Top(t),
                    f.auth /\ f.type # "CRED" /\ f.result = Done /\ f.code \in 200 .. 299,
                    f.error = None \/ f.type \notin {"COPYMULTIPOST", "COMPLETEMULTIPOST"}
             PROVE  IF f.type = "GET" THEN \A i \in DOMAIN store[t].file : store[t].file[i] = "right"
                    ELSE store[t].times > 0 /\ store[t].whole
  BY DEF SuccessMeansDone
<1>1. Len(stack[t]) = 1 BY OverRequest
<1>2. One(t, f) /\ FrameInv(f) BY <1>1, OnlyRequest
<1>3. f.error = None BY <1>2 DEF FrameInv
<1>4. DoneAtS3(t, f) BY <1>2, <1>3 DEF One, Answer
<1> QED BY <1>4 DEF DoneAtS3

-----------------------------------------------------------------------------
(***************************************************************************)
(* Keys of one source.  Before the checks of the options there are none;    *)
(* the checks take them from one place; later an answer brings all of them, *)
(* and a request takes what the credentials hold when it is signed.         *)
(***************************************************************************)
OneKeys(k)     == OneName({k.id, k.secret, k.token})
KeysFine(c, k) == c.ibm \/ OneKeys(k)
NothingYet(c)  == c.id = None /\ c.secret = None /\ c.token = None

FramesFine == \A t \in Threads : \A i \in DOMAIN stack[t] : KeysFine(cred, stack[t][i].keys)

KeysInv ==
  /\ start = "options" => NothingYet(cred) /\ SecretsNamed(setup.machine)
  /\ KeysFine(cred, cred)
  /\ FramesFine

(* Some of the names, and None. *)
LEMMA FewerNames ==
  ASSUME NEW S, OneName(S), NEW T, T \subseteq S \cup {None}
  PROVE  OneName(T)
BY DEF OneName

(* No keys are of one source, and so are those of a new request. *)
LEMMA NoName ==
  /\ \A c : NothingYet(c) => OneKeys(c)
  /\ OneKeys(NoKeys)
<1>1. OneName({}) BY DEF OneName
<1>2. ASSUME NEW c, NothingYet(c) PROVE OneKeys(c)
  <2>1. {c.id, c.secret, c.token} \subseteq {} \cup {None} BY <1>2 DEF NothingYet
  <2> QED BY <1>1, <2>1, FewerNames DEF OneKeys
<1>3. NothingYet(NoKeys) BY DEF NothingYet, NoKeys
<1> QED BY <1>2, <1>3

(* Setting keys of one source. *)
LEMMA SetKeys ==
  ASSUME NEW c, c \in Creds(c), NothingYet(c), NEW id, NEW secret, NEW token
  PROVE  /\ OneName({id, secret}) => OneKeys(SetAccessKey(c, id, secret).cred)
         /\ OneName({id, secret, token}) => OneKeys(SetAccessKeyWithSessionToken(c, id, secret, token).cred)
         /\ OneKeys(Wrong(c).cred) /\ OneKeys(Fine(c).cred)
<1> DEFINE d == [c EXCEPT !.id = id, !.secret = secret]
           e == [c EXCEPT !.id = id, !.secret = secret, !.token = token, !.session = TRUE]
<1>1. d.id = id /\ d.secret = secret /\ d.token = None BY DEF Creds, NothingYet
<1>2. e.id = id /\ e.secret = secret /\ e.token = token BY DEF Creds
<1>3. SetAccessKey(c, id, secret) = Wrong(c) \/ SetAccessKey(c, id, secret) = Fine(d) BY DEF SetAccessKey
<1>4. SetAccessKeyWithSessionToken(c, id, secret, token) = Wrong(c) \/ SetAccessKeyWithSessionToken(c, id, secret, token) = Fine(e)
  BY DEF SetAccessKeyWithSessionToken
<1> HIDE DEF d, e
<1>5. OneKeys(Wrong(c).cred) /\ OneKeys(Fine(c).cred) BY NoName, FineWrong
<1>6. ASSUME OneName({id, secret}) PROVE OneKeys(SetAccessKey(c, id, secret).cred)
  <2>1. {d.id, d.secret, d.token} \subseteq {id, secret} \cup {None} BY <1>1
  <2>2. OneKeys(d) BY <1>6, <2>1, FewerNames DEF OneKeys
  <2>3. PICK k : k = SetAccessKey(c, id, secret).cred OBVIOUS
  <2>4. k = c \/ k = d BY <1>3, <2>3, FineWrong
  <2>5. OneKeys(k) BY <2>2, <2>4, NoName
  <2> QED BY <2>3, <2>5
<1>7. ASSUME OneName({id, secret, token}) PROVE OneKeys(SetAccessKeyWithSessionToken(c, id, secret, token).cred)
  <2>1. {e.id, e.secret, e.token} \subseteq {id, secret, token} \cup {None} BY <1>2
  <2>2. OneKeys(e) BY <1>7, <2>1, FewerNames DEF OneKeys
  <2>3. PICK k : k = SetAccessKeyWithSessionToken(c, id, secret, token).cred OBVIOUS
  <2>4. k = c \/ k = e BY <1>4, <2>3, FineWrong
  <2>5. OneKeys(k) BY <2>2, <2>4, NoName
  <2> QED BY <2>3, <2>5
<1> QED BY <1>5, <1>6, <1>7

(* A password file gives the keys of its key=value lines or of one pair. *)
LEMMA PasswdKeys ==
  ASSUME NEW c, c \in Creds(c), NothingYet(c), NEW file, PasswdNamed(file), NEW system, NEW bucket
  PROVE  OneKeys(ReadS3fsPasswdFile(c, file, system, bucket).cred)
<1> DEFINE ids     == ValueOf(file, "AWSAccessKeyId")
           secrets == ValueOf(file, "AWSSecretKey")
           pairs   == {file.lines[i] : i \in LinesOf(file, "pair")}
           own     == {p \in pairs : p.bucket = bucket}
           used    == IF own # {} THEN own ELSE {p \in pairs : p.bucket = None}
           i       == CHOOSE x \in ids : TRUE
           s       == CHOOSE x \in secrets : TRUE
           p       == CHOOSE x \in used : TRUE
           values  == {file.lines[n].value : n \in LinesOf(file, "key")}
           r       == ReadS3fsPasswdFile(c, file, system, bucket)
<1>1. r = IF ~PermsAllowed(file, system) \/ ~Parsable(file) THEN Wrong(c)
          ELSE IF ids # {} /\ secrets # {} THEN SetAccessKey(c, i, s)
          ELSE IF ids \cup secrets # {} \/ used = {} THEN Wrong(c)
          ELSE SetAccessKey(c, p.id, p.secret)
  BY DEF ReadS3fsPasswdFile
<1>2. \A name : ValueOf(file, name) \subseteq values BY DEF ValueOf
<1>3. ids # {} /\ secrets # {} => OneName({i, s})
  <2> SUFFICES ASSUME ids # {}, secrets # {} PROVE OneName({i, s}) OBVIOUS
  <2>1. ids \subseteq values /\ secrets \subseteq values BY <1>2
  <2>2. i \in ids /\ s \in secrets OBVIOUS
  <2>3. OneName(values) BY DEF PasswdNamed
  <2> HIDE DEF ids, secrets, values, i, s
  <2>4. {i, s} \subseteq values \cup {None} BY <2>1, <2>2
  <2> QED BY <2>3, <2>4, FewerNames
<1>4. used # {} => OneName({p.id, p.secret})
  <2> SUFFICES ASSUME used # {} PROVE OneName({p.id, p.secret}) OBVIOUS
  <2>1. p \in used OBVIOUS
  <2>2. used \subseteq pairs OBVIOUS
  <2> HIDE DEF p, used
  <2>3. PICK n \in LinesOf(file, "pair") : p = file.lines[n] BY <2>1, <2>2
  <2> QED BY <2>3 DEF PasswdNamed
<1> HIDE DEF r, ids, secrets, used, i, s, p
<1>5. r = Wrong(c) \/ (ids # {} /\ secrets # {} /\ r = SetAccessKey(c, i, s)) \/ (used # {} /\ r = SetAccessKey(c, p.id, p.secret))
  BY <1>1
<1>6. OneKeys(r.cred) BY <1>3, <1>4, <1>5, SetKeys
<1> QED BY <1>6 DEF r

(* The AWS file gives the keys of one section. *)
LEMMA AwsKeys ==
  ASSUME NEW c, c \in Creds(c), NothingYet(c), NEW file, AwsNamed(file)
  PROVE  OneKeys(ReadAwsCredentialFile(c, file).cred)
<1> DEFINE heads  == {i \in LinesOf(file, "section") : file.lines[i].value = c.profile}
           first  == {i \in heads : \A j \in heads : i <= j}
           head   == CHOOSE i \in first : TRUE
           own    == SectionAt(file.lines, head)
           id     == FieldOf(file.lines, own, "id")
           secret == FieldOf(file.lines, own, "secret")
           token  == FieldOf(file.lines, own, "token")
           values == {file.lines[i].value : i \in own}
           r      == ReadAwsCredentialFile(c, file)
<1>1. r = IF ~file.there \/ first = {} \/ (token = None /\ c.session) THEN Wrong(c)
          ELSE IF token = None THEN SetAccessKey(c, id, secret)
          ELSE SetAccessKeyWithSessionToken(c, id, secret, token)
  BY DEF ReadAwsCredentialFile
<1>2. first # {} => OneName(values)
  <2> SUFFICES ASSUME first # {} PROVE OneName(values) OBVIOUS
  <2>1. head \in first OBVIOUS
  <2>2. first \subseteq 1 .. Len(file.lines) BY DEF LinesOf
  <2> HIDE DEF first, head
  <2>3. ASSUME NEW i \in own, NEW j \in own, i <= j PROVE OneName({file.lines[i].value, file.lines[j].value})
    <3>1. head \in Int /\ 1 <= head BY <2>1, <2>2
    <3>2. /\ i \in head + 1 .. Len(file.lines) /\ j \in head + 1 .. Len(file.lines)
          /\ \A n \in head + 1 .. j : file.lines[n].kind # "section"
      BY DEF SectionAt
    <3>3. i \in 1 .. Len(file.lines) /\ j \in 1 .. Len(file.lines) BY <3>1, <3>2
    <3>4. \A n \in i .. j : file.lines[n].kind # "section" BY <3>1, <3>2
    <3>5. ~(i > j) BY <2>3, <3>3
    <3> QED BY <3>3, <3>4, <3>5 DEF AwsNamed
  <2>4. \A i, j \in own : i <= j \/ j <= i
    <3>1. own \subseteq Int BY DEF SectionAt
    <3> HIDE DEF own
    <3> QED BY <3>1
  <2>5. \A x, y \in values \ {None} : x = y
    <3> SUFFICES ASSUME NEW i \in own, NEW j \in own, file.lines[i].value # None, file.lines[j].value # None
                 PROVE  file.lines[i].value = file.lines[j].value
      OBVIOUS
    <3>1. OneName({file.lines[i].value, file.lines[j].value}) \/ OneName({file.lines[j].value, file.lines[i].value})
      BY <2>3, <2>4
    <3> QED BY <3>1 DEF OneName
  <2> QED BY <2>5 DEF OneName
<1> HIDE DEF head
<1>3. \A kind : FieldOf(file.lines, own, kind) \in values \cup {None}
  <2> SUFFICES ASSUME NEW kind PROVE FieldOf(file.lines, own, kind) \in values \cup {None} OBVIOUS
  <2> DEFINE given == {i \in own : file.lines[i].kind = kind}
             last  == {i \in given : \A j \in given : j <= i}
             l     == CHOOSE i \in last : TRUE
  <2>1. FieldOf(file.lines, own, kind) = IF last = {} THEN None ELSE file.lines[l].value BY DEF FieldOf
  <2>2. last # {} => l \in last OBVIOUS
  <2>3. last \subseteq own OBVIOUS
  <2> HIDE DEF last, l, own
  <2> QED BY <2>1, <2>2, <2>3
<1>4. id \in values \cup {None} /\ secret \in values \cup {None} /\ token \in values \cup {None} BY <1>3
<1> HIDE DEF r, first, values, id, secret, token
<1>5. first # {} => OneName({id, secret}) /\ OneName({id, secret, token})
  <2>1. {id, secret} \subseteq values \cup {None} /\ {id, secret, token} \subseteq values \cup {None} BY <1>4
  <2> QED BY <1>2, <2>1, FewerNames
<1>6. \/ r = Wrong(c)
      \/ first # {} /\ (r = SetAccessKey(c, id, secret) \/ r = SetAccessKeyWithSessionToken(c, id, secret, token))
  BY <1>1
<1>7. OneKeys(r.cred) BY <1>5, <1>6, SetKeys
<1> QED BY <1>7 DEF r

(* So does the environment. *)
LEMMA EnvironmentKeys ==
  ASSUME NEW c, c \in Creds(c), NothingYet(c), NEW env, OneName({env.id, env.secret, env.token})
  PROVE  OneKeys(FromEnvironment(c, env).cred)
<1>1. OneName({env.id, env.secret})
  <2>1. {env.id, env.secret} \subseteq {env.id, env.secret, env.token} \cup {None} OBVIOUS
  <2> QED BY <2>1, FewerNames
<1>2. FromEnvironment(c, env) \in {Wrong(c), SetAccessKey(c, env.id, env.secret),
                                   SetAccessKeyWithSessionToken(c, env.id, env.secret, env.token)}
  BY DEF FromEnvironment
<1> QED BY <1>1, <1>2, SetKeys

(* The places are tried in order, and the first that has keys gives all of them. *)
LEMMA InitialKeys ==
  ASSUME NEW c, c \in Creds(c), NothingYet(c), NEW m, SecretsNamed(m)
  PROVE  OneKeys(InitialS3fsCredentials(c, m).cred)
<1>1. ASSUME NEW file, PasswdNamed(file) PROVE \A system : OneKeys(ReadS3fsPasswdFile(c, file, system, m.bucket).cred)
  BY <1>1, PasswdKeys
<1>2. OneKeys(ReadAwsCredentialFile(c, m.aws).cred) BY AwsKeys DEF SecretsNamed
<1>3. OneKeys(FromEnvironment(c, m.env).cred) BY EnvironmentKeys DEF SecretsNamed
<1>4. OneKeys(Wrong(c).cred) /\ OneKeys(Fine(c).cred) BY NoName, FineWrong
<1>5. InitialS3fsCredentials(c, m) \in
        {Fine(c), Wrong(c), FromEnvironment(c, m.env), ReadAwsCredentialFile(c, m.aws),
         ReadS3fsPasswdFile(c, m.opt, FALSE, m.bucket), ReadS3fsPasswdFile(c, m.env_file, FALSE, m.bucket),
         ReadS3fsPasswdFile(c, m.home, FALSE, m.bucket), ReadS3fsPasswdFile(c, m.etc, TRUE, m.bucket)}
  BY DEF InitialS3fsCredentials
<1>6. /\ OneKeys(ReadS3fsPasswdFile(c, m.opt, FALSE, m.bucket).cred)
      /\ OneKeys(ReadS3fsPasswdFile(c, m.env_file, FALSE, m.bucket).cred)
      /\ OneKeys(ReadS3fsPasswdFile(c, m.home, FALSE, m.bucket).cred)
      /\ OneKeys(ReadS3fsPasswdFile(c, m.etc, TRUE, m.bucket).cred)
  BY <1>1 DEF SecretsNamed
<1> QED BY <1>2, <1>3, <1>4, <1>5, <1>6

(* The checks after the last option. *)
LEMMA ParamsKeys ==
  ASSUME NEW c, c \in Creds(c), NothingYet(c), NEW m, SecretsNamed(m)
  PROVE  OneKeys(CheckAllParams(c, m).cred)
<1> DEFINE deferred == m.public \/ c.loadrole \/ c.ecs \/ c.lib # None
           found == IF deferred THEN Fine(c) ELSE InitialS3fsCredentials(c, m)
           k == found.cred
           r == CheckAllParams(c, m)
<1>1. r \in {Wrong(c), Fine(k), InitExtCredLib(k, m)} BY DEF CheckAllParams
<1>2. OneKeys(k) BY NoName, InitialKeys, FineWrong
<1>3. OneKeys(c) BY NoName
<1> HIDE DEF k, r
<1>4. InitExtCredLib(k, m) \in {Fine(k), Wrong(k)} BY DEF InitExtCredLib
<1>5. PICK n : n = r.cred OBVIOUS
<1>6. n = c \/ n = k BY <1>1, <1>4, <1>5, FineWrong
<1>7. OneKeys(n) BY <1>2, <1>3, <1>6
<1> QED BY <1>5, <1>7 DEF r

(* An option gives no keys. *)
LEMMA OptionKeys ==
  ASSUME NEW c, c \in Creds(c), NothingYet(c), NEW name \in OptionNames, NEW value
  PROVE  NothingYet(DetectParam(c, name, value).cred)
<1> DEFINE r == DetectParam(c, name, value)
           b == [c EXCEPT !.builtin = TRUE]
<1>2. b \in Creds(b) /\ NothingYet(b) BY DEF Creds, NothingYet
<1>3. r = CASE name = "passwd_file"       -> Fine([b EXCEPT !.passwd = value])
    [] name = "ibm_iam_auth"      -> Fine([b EXCEPT !.ibm = TRUE, !.fields = 2, !.imds = 1])
    [] name = "use_session_token" -> Fine([b EXCEPT !.session = TRUE])
    [] name = "ibm_iam_endpoint"  -> IF value = "noscheme" THEN Wrong(c) ELSE Fine(b)
    [] name = "imdsv1only"        -> Fine([b EXCEPT !.imds = 1])
    [] name = "ecs"               -> IF c.ibm THEN Wrong(c)
                                     ELSE Fine([b EXCEPT !.ecs = TRUE, !.imds = 1, !.fields = 5])
    [] name = "iam_role"          -> IF c.ecs \/ c.ibm THEN Wrong(c)
                                     ELSE IF value \in {None, "auto"} THEN Fine([b EXCEPT !.loadrole = TRUE])
                                     ELSE Fine([b EXCEPT !.role = value, !.loadrole = FALSE])
    [] name = "profile"           -> Fine([b EXCEPT !.profile = IF value = None THEN c.profile ELSE value])
    [] name = "credlib"           -> IF value = None THEN Wrong(c) ELSE Fine([c EXCEPT !.lib = value])
    [] name = "credlib_opts"      -> IF value = None THEN Wrong(c) ELSE Fine([c EXCEPT !.libopts = value])
  BY DEF DetectParam
<1> HIDE DEF b, r
<1>4. /\ NothingYet([b EXCEPT !.passwd = value]) /\ NothingYet([b EXCEPT !.ibm = TRUE, !.fields = 2, !.imds = 1])
      /\ NothingYet([b EXCEPT !.session = TRUE]) /\ NothingYet([b EXCEPT !.imds = 1])
      /\ NothingYet([b EXCEPT !.ecs = TRUE, !.imds = 1, !.fields = 5])
      /\ NothingYet([b EXCEPT !.loadrole = TRUE]) /\ NothingYet([b EXCEPT !.role = value, !.loadrole = FALSE])
      /\ NothingYet([b EXCEPT !.profile = IF value = None THEN c.profile ELSE value])
  BY <1>2 DEF Creds, NothingYet
<1>5. NothingYet([c EXCEPT !.lib = value]) /\ NothingYet([c EXCEPT !.libopts = value]) BY DEF Creds, NothingYet
<1> HIDE DEF NothingYet
<1>6. NothingYet(r.cred) BY <1>2, <1>3, <1>4, <1>5, FineWrong, ZenonT(30) DEF OptionNames
<1> QED BY <1>6 DEF r

(* An answer brings all keys at once, or none. *)
LEMMA AnswerKeys ==
  ASSUME NEW c, c \in Creds(c), KeysFine(c, c), NEW answer, NEW issue, NEW expire, NEW role
  PROVE  /\ LET r == SetIAMCredentials(c, answer, issue, expire) IN KeysFine(r.cred, r.cred)
         /\ LET r == UpdateExtCredentials(c, answer, issue, expire) IN KeysFine(r.cred, r.cred)
         /\ LET r == SetIAMRole(c, role) IN KeysFine(r.cred, r.cred)
<1> DEFINE d == [c EXCEPT !.token = issue, !.expire = expire]
           e == [c EXCEPT !.id = issue, !.secret = issue, !.token = issue, !.expire = expire]
           g == [c EXCEPT !.role = role]
<1>1. d.ibm = c.ibm BY DEF Creds
<1>2. e.id = issue /\ e.secret = issue /\ e.token = issue BY DEF Creds
<1>3. g.ibm = c.ibm /\ g.id = c.id /\ g.secret = c.secret /\ g.token = c.token BY DEF Creds
<1>4. LET r == SetIAMCredentials(c, answer, issue, expire) IN r = Wrong(c) \/ (c.ibm /\ r = Fine(d)) \/ r = Fine(e)
  BY DEF SetIAMCredentials
<1>5. UpdateExtCredentials(c, answer, issue, expire) \in {Wrong(c), Fine(e)} BY DEF UpdateExtCredentials
<1>6. SetIAMRole(c, role) \in {Wrong(c), Fine(g)} BY DEF SetIAMRole
<1> HIDE DEF d, e, g
<1>7. c.ibm => KeysFine(d, d) BY <1>1 DEF KeysFine
<1>8. KeysFine(e, e) BY <1>2 DEF KeysFine, OneKeys, OneName
<1>9. KeysFine(g, g) BY <1>3 DEF KeysFine, OneKeys
<1> QED BY <1>4, <1>5, <1>6, <1>7, <1>8, <1>9, FineWrong

(* The keys of a signed request are those of the credentials. *)
LEMMA SignedKeys ==
  ASSUME NEW f, FrameInv(f), NEW c, KeysFine(c, c)
  PROVE  KeysFine(c, Signed(f, c).keys)
<1>1. f \in Frame({f.keys}) BY DEF FrameInv
<1>2. PICK k : k = KeysFor(c) OBVIOUS
<1>3. Signed(f, c).keys = k BY <1>1, <1>2 DEF Signed, Frame
<1>4. k.id = c.id /\ k.secret = c.secret /\ k.token \in {c.token, None} BY <1>2 DEF KeysFor
<1>5. {k.id, k.secret, k.token} \subseteq {c.id, c.secret, c.token} \cup {None} BY <1>4
<1>6. OneKeys(c) => OneKeys(k) BY <1>5, FewerNames DEF OneKeys
<1> QED BY <1>3, <1>6 DEF KeysFine

(* What happens to a request under way leaves its keys alone. *)
LEMMA OwnKeys ==
  ASSUME NEW f, FrameInv(f)
  PROVE  /\ [f EXCEPT !.pc = "send"].keys = f.keys
         /\ [f EXCEPT !.pc = "done", !.result = "EIO"].keys = f.keys
         /\ \A r : [Mapped(f) EXCEPT !.pc = "over", !.result = r].keys = f.keys
         /\ [Mapped(f) EXCEPT !.pc = "over"].keys = f.keys
<1>1. f \in Frame({f.keys}) BY DEF FrameInv
<1>2. Mapped(f) \in Frame({f.keys}) /\ Mapped(f).keys = f.keys BY <1>1 DEF Mapped, Frame, Results
<1>3. [f EXCEPT !.pc = "send"].keys = f.keys /\ [f EXCEPT !.pc = "done", !.result = "EIO"].keys = f.keys
  BY <1>1 DEF Frame
<1>4. PICK m : m = Mapped(f) OBVIOUS
<1>5. m \in Frame({f.keys}) /\ m.keys = f.keys BY <1>2, <1>4
<1>6. (\A r : [m EXCEPT !.pc = "over", !.result = r].keys = f.keys) /\ [m EXCEPT !.pc = "over"].keys = f.keys
  BY <1>5 DEF Frame
<1> QED BY <1>3, <1>4, <1>6

(* Nor does the end of an attempt change them. *)
LEMMA AttemptedKeys ==
  ASSUME NEW f, FrameInv(f), NEW p, NEW g, g = f \/ g = Moved(f, p), NEW code, NEW error, NEW result
  PROVE  Attempted(Performed(f, g), code, error, result).keys = f.keys
<1>1. "keys" \in DOMAIN f
  <2>1. f \in Frame({f.keys}) BY DEF FrameInv
  <2> QED BY <2>1 DEF Frame
<1>2. "keys" \in DOMAIN g /\ g.keys = f.keys BY <1>1 DEF Moved
<1>3. PICK h : h = Performed(f, g) OBVIOUS
<1>4. "keys" \in DOMAIN h /\ h.keys = f.keys BY <1>2, <1>3 DEF Performed
<1>5. \A c, e, r : Finished(h, c, e, r).keys = h.keys BY <1>4 DEF Finished
<1>6. RemakeHandle(h).keys = h.keys BY <1>4 DEF RemakeHandle
<1>7. Attempted(h, code, error, result).keys = h.keys BY <1>5, <1>6 DEF Attempted
<1> QED BY <1>3, <1>4, <1>7

(* A new request has none. *)
LEMMA NewKeys ==
  ASSUME NEW c, NEW b, NEW auth, NEW loop
  PROVE  KeysFine(c, Request(b, auth, loop).keys)
<1>1. Request(b, auth, loop).keys = NoKeys BY DEF Request
<1> QED BY <1>1, NoName DEF KeysFine

(* The steps of one thread, once the options are read. *)
LEMMA StackKeys ==
  ASSUME IInv, KeysInv, NEW t \in Threads, NEW s, stack' = [stack EXCEPT ![t] = s], cred'.ibm = cred.ibm,
         KeysFine(cred', cred'), \A i \in DOMAIN s : KeysFine(cred', s[i].keys), start' # "options"
  PROVE  KeysInv'
<1>1. DOMAIN stack = Threads BY DEF IInv, StacksInv
<1>2. ASSUME NEW u \in Threads, NEW i \in DOMAIN stack'[u] PROVE KeysFine(cred', stack'[u][i].keys)
  <2>1. CASE u = t BY <1>1, <2>1
  <2>2. CASE u # t
    <3>1. stack'[u] = stack[u] BY <1>1, <2>2
    <3>2. KeysFine(cred, stack[u][i].keys) BY <3>1 DEF KeysInv, FramesFine
    <3> QED BY <3>1, <3>2 DEF KeysFine
  <2> QED BY <2>1, <2>2
<1>3. FramesFine' BY <1>2 DEF FramesFine
<1> QED BY <1>3 DEF KeysInv

(* A stack of one request. *)
LEMMA OnlyKeys ==
  ASSUME IInv, KeysInv, NEW t \in Threads, NEW g, stack' = [stack EXCEPT ![t] = <<g>>], cred'.ibm = cred.ibm,
         KeysFine(cred', cred'), KeysFine(cred', g.keys), start' # "options"
  PROVE  KeysInv'
<1>1. \A i \in DOMAIN <<g>> : <<g>>[i] = g OBVIOUS
<1>2. PICK s : s = <<g>> OBVIOUS
<1>3. \A i \in DOMAIN s : KeysFine(cred', s[i].keys) BY <1>1, <1>2
<1>4. stack' = [stack EXCEPT ![t] = s] BY <1>2
<1> QED BY <1>3, <1>4, StackKeys

(* A stack of none. *)
LEMMA NobodysKeys ==
  ASSUME IInv, KeysInv, NEW t \in Threads, stack' = [stack EXCEPT ![t] = <<>>], UNCHANGED cred, start' # "options"
  PROVE  KeysInv'
<1>1. PICK s : s = <<>> OBVIOUS
<1>2. DOMAIN s = {} BY <1>1
<1>3. stack' = [stack EXCEPT ![t] = s] BY <1>1
<1>4. KeysFine(cred', cred') BY DEF KeysInv
<1> QED BY <1>2, <1>3, <1>4, StackKeys

(* The innermost request of a thread, and the one below it. *)
LEMMA TopFine ==
  ASSUME IInv, KeysInv, NEW t \in Threads, stack[t] # <<>>
  PROVE  KeysFine(cred, Top(t).keys) /\ KeysFine(cred, stack[t][1].keys) /\ start # "options" /\ FrameInv(Top(t))
<1>1. Len(stack[t]) \in {1, 2} BY TopFacts DEF IInv
<1>2. DOMAIN stack[t] = 1 .. Len(stack[t])
  <2>1. StackInv(t) BY DEF IInv, StacksInv
  <2>2. CASE \E f : One(t, f)
    <3>1. PICK f : stack[t] = <<f>> BY <2>2 DEF One
    <3> QED BY <3>1
  <2>3. CASE \E f, g : Two(t, f, g)
    <3>1. PICK f, g : stack[t] = <<f, g>> BY <2>3 DEF Two
    <3> QED BY <3>1
  <2> QED BY <2>1, <2>2, <2>3 DEF StackInv
<1>3. Len(stack[t]) \in DOMAIN stack[t] /\ 1 \in DOMAIN stack[t] BY <1>1, <1>2
<1>4. KeysFine(cred, Top(t).keys) /\ KeysFine(cred, stack[t][1].keys) BY <1>3 DEF KeysInv, FramesFine, Top
<1> QED BY <1>4, Phase, TopFacts DEF IInv

(* The innermost request goes on. *)
LEMMA TopKeys ==
  ASSUME IInv, KeysInv, NEW t \in Threads, stack[t] # <<>>, NEW g, stack' = Replaced(t, g), cred'.ibm = cred.ibm,
         KeysFine(cred', cred'), KeysFine(cred', g.keys), start' = start
  PROVE  KeysInv'
<1>1. StackInv(t) /\ DOMAIN stack = Threads BY DEF IInv, StacksInv
<1>2. start' # "options" BY TopFine
<1>3. CASE \E f : One(t, f)
  <2>1. PICK f : stack[t] = <<f>> BY <1>3 DEF One
  <2>2. stack' = [stack EXCEPT ![t] = <<g>>] BY <1>1, <2>1, ReplacedOne
  <2> QED BY <1>2, <2>2, OnlyKeys
<1>4. CASE \E f, h : Two(t, f, h)
  <2>1. PICK f, h : stack[t] = <<f, h>> BY <1>4 DEF Two
  <2>2. PICK s : s = <<f, g>> OBVIOUS
  <2>3. stack' = [stack EXCEPT ![t] = s] BY <1>1, <2>1, <2>2, ReplacedTwo
  <2>4. DOMAIN s = {1, 2} /\ s[1] = f /\ s[2] = g BY <2>2
  <2>5. stack[t][1] = f BY <2>1
  <2>6. KeysFine(cred', f.keys) BY <2>5, TopFine DEF KeysFine
  <2>7. \A i \in DOMAIN s : KeysFine(cred', s[i].keys) BY <2>4, <2>6
  <2> QED BY <1>2, <2>3, <2>7, StackKeys
<1> QED BY <1>1, <1>3, <1>4 DEF StackInv

(* And keeps its keys. *)
LEMMA SameKeys ==
  ASSUME IInv, KeysInv, NEW t \in Threads, stack[t] # <<>>, NEW g, stack' = Replaced(t, g), g.keys = Top(t).keys,
         UNCHANGED <<cred, start>>
  PROVE  KeysInv'
<1>1. KeysFine(cred', g.keys) /\ KeysFine(cred', cred') BY TopFine DEF KeysInv
<1> QED BY <1>1, TopKeys

(* Signing takes the keys of the credentials, which a library or a token request may have renewed. *)
LEMMA SignKeys ==
  ASSUME IInv, KeysInv, NEW t \in Threads, Sign(t)
  PROVE  KeysInv'
<1>1. stack[t] # <<>> /\ UNCHANGED <<setup, start>> BY DEF Sign, IdleStart
<1>2. PICK f : f = Top(t) OBVIOUS
<1>3. FrameInv(f) /\ KeysFine(cred, f.keys) /\ KeysFine(cred, cred) /\ start' # "options"
  BY <1>1, <1>2, TopFine DEF KeysInv
<1>4. CASE Unsigned(t)
  <2>1. PICK g : g = [f EXCEPT !.pc = "send"] OBVIOUS
  <2>2. stack' = Replaced(t, g) /\ UNCHANGED cred BY <1>2, <1>4, <2>1 DEF Unsigned
  <2>3. g.keys = f.keys BY <1>3, <2>1, OwnKeys
  <2> QED BY <1>1, <1>2, <2>2, <2>3, SameKeys
<1>5. CASE SignAtOnce(t)
  <2>1. PICK g : g = Signed(f, cred) OBVIOUS
  <2>2. stack' = Replaced(t, g) /\ UNCHANGED cred BY <1>2, <1>5, <2>1 DEF SignAtOnce
  <2>3. KeysFine(cred, g.keys) BY <1>3, <2>1, SignedKeys
  <2> QED BY <1>1, <1>3, <2>2, <2>3, TopKeys
<1>6. CASE SignFromLibrary(t)
  <2>1. PICK answer, u : /\ u = UpdateExtCredentials(cred, answer, ToString(now), now + Lifetime) /\ cred' = u.cred
                         /\ IF u.ok THEN stack' = Replaced(t, Signed(Top(t), u.cred)) ELSE CannotSign(t)
    BY <1>6 DEF SignFromLibrary
  <2>2. PICK c : c = u.cred OBVIOUS
  <2>3. KeysFine(c, c) /\ c.ibm = cred.ibm
    <3>1. now + Lifetime \in Nat BY RequestAssumption DEF IInv, StateTypes, RequestAssumption
    <3>2. Kept(cred, u) BY <2>1, <3>1, AnswersKeep DEF IInv, CredInv
    <3> QED BY <1>3, <2>1, <2>2, <3>2, AnswerKeys DEF IInv, CredInv, Kept
  <2>4. PICK g : g = IF u.ok THEN Signed(f, c) ELSE [f EXCEPT !.pc = "done", !.result = "EIO"] OBVIOUS
  <2>5. stack' = Replaced(t, g) BY <1>2, <2>1, <2>2, <2>4 DEF CannotSign
  <2>6. KeysFine(c, g.keys)
    <3>1. CASE u.ok BY <1>3, <2>3, <2>4, <3>1, SignedKeys
    <3>2. CASE ~u.ok
      <4>1. g.keys = f.keys BY <1>3, <2>4, <3>2, OwnKeys
      <4> QED BY <1>3, <2>3, <4>1 DEF KeysFine
    <3> QED BY <3>1, <3>2
  <2> QED BY <1>1, <2>1, <2>2, <2>3, <2>5, <2>6, TopKeys
<1>7. CASE SignAfterRefresh(t)
  <2>1. UNCHANGED cred BY <1>7 DEF SignAfterRefresh
  <2>2. CASE ~UrlKnown
    <3>1. PICK g : g = [f EXCEPT !.pc = "done", !.result = "EIO"] OBVIOUS
    <3>2. stack' = Replaced(t, g) BY <1>2, <1>7, <2>2, <3>1 DEF SignAfterRefresh, CannotSign
    <3>3. g.keys = f.keys BY <1>3, <3>1, OwnKeys
    <3> QED BY <1>1, <1>2, <2>1, <3>2, <3>3, SameKeys
  <2>3. CASE UrlKnown
    <3>1. PICK g : g = IF ~cred.ecs /\ ~cred.ibm /\ cred.imds > 1 THEN AskApiToken ELSE AskKeys(cred) OBVIOUS
    <3>2. stack' = [stack EXCEPT ![t] = Append(@, g)] BY <1>7, <2>3, <3>1 DEF SignAfterRefresh
    <3>3. KeysFine(cred, g.keys) BY <3>1, NewKeys DEF AskApiToken, AskKeys, TokenRequest
    <3>4. f.auth /\ tokenLock = None BY <1>2, <1>7 DEF SignAfterRefresh
    <3>5. stack[t] = <<f>> /\ DOMAIN stack = Threads
      <4>1. tokenLock # t BY <3>4, NoThread
      <4>2. One(t, f) BY <1>1, <1>2, <4>1, TopFacts DEF IInv
      <4> QED BY <4>2 DEF One, IInv, StacksInv
    <3>6. PICK s : s = <<f, g>> OBVIOUS
    <3>7. stack' = [stack EXCEPT ![t] = s]
      <4>1. Append(<<f>>, g) = s BY <3>6, PairAppended
      <4>2. stack' = [stack EXCEPT ![t] = Append(stack[t], g)] BY <3>2, <3>5
      <4> QED BY <3>5, <4>1, <4>2
    <3>8. DOMAIN s = {1, 2} /\ s[1] = f /\ s[2] = g BY <3>6
    <3>9. \A i \in DOMAIN s : KeysFine(cred', s[i].keys) BY <1>3, <2>1, <3>3, <3>8
    <3> QED BY <1>3, <2>1, <3>7, <3>9, StackKeys
  <2> QED BY <2>2, <2>3
<1> QED BY <1>4, <1>5, <1>6, <1>7 DEF Sign

(* A connection that breaks leaves the request somewhere in its body. *)
LEMMA BrokenRequest ==
  ASSUME NEW t \in Threads, Breaks(t)
  PROVE  \E h, p : h = Top(t) /\ stack' = Replaced(t, Attempted(Performed(h, Moved(h, p)), NOTSET, None, again))
<1>1. PICK p : stack' = Replaced(t, Attempted([[Top(t) EXCEPT !.pos = p] EXCEPT
                                                 !.first = IF @ = <<>> THEN <<Message(Top(t))>> ELSE @], NOTSET, None, again))
  BY Zenon DEF Breaks
<1>2. PICK h : h = Top(t) OBVIOUS
<1>3. stack' = Replaced(t, Attempted(Performed(h, Moved(h, p)), NOTSET, None, again))
  BY <1>1, <1>2, Zenon DEF Performed, Moved
<1> QED BY <1>2, <1>3

(* Sending changes no keys. *)
LEMMA SendKeys ==
  ASSUME IInv, KeysInv, NEW t \in Threads, Send(t)
  PROVE  KeysInv'
<1>1. PICK f : f = Top(t) OBVIOUS
<1>2. Perform(t) /\ UNCHANGED <<cred, start>>
  <2>1. ASSUME NEW code, NEW error, NEW result, NEW curlcode, Ended(t, Top(t), code, error, result, curlcode)
        PROVE  UNCHANGED <<cred, start>>
    BY <2>1 DEF Ended, IdleStart
  <2>2. CASE Succeeds(t) BY <2>1, <2>2 DEF Succeeds
  <2>3. CASE SucceedsWithError(t) BY <2>1, <2>3 DEF SucceedsWithError
  <2>4. CASE Refused(t) BY <2>1, <2>4 DEF Refused
  <2>5. CASE Breaks(t) BY <2>5 DEF Breaks, IdleStart
  <2>6. CASE AnswerLost(t) BY <2>1, <2>6 DEF AnswerLost
  <2>7. CASE Distrusted(t) BY <2>1, <2>7 DEF Distrusted
  <2> QED BY <2>2, <2>3, <2>4, <2>5, <2>6, <2>7 DEF Send
<1>3. stack[t] # <<>> /\ FrameInv(f) BY <1>1, <1>2, TopFine DEF Perform
<1>4. \E g, p, code, error, result : (g = f \/ g = Moved(f, p))
          /\ stack' = Replaced(t, Attempted(Performed(f, g), code, error, result))
  <2>1. ASSUME NEW code, NEW error, NEW result, NEW curlcode, Ended(t, f, code, error, result, curlcode)
        PROVE  stack' = Replaced(t, Attempted(Performed(f, f), code, error, result))
    BY <2>1 DEF Ended, Performed
  <2>2. CASE Succeeds(t)
    <3>1. Ended(t, f, 200, None, Done, "OK") BY <1>1, <2>2 DEF Succeeds
    <3> QED BY <2>1, <3>1
  <2>3. CASE SucceedsWithError(t)
    <3>1. Ended(t, f, 200, "InternalError", ResultOf(f.opts.verb, 200, "InternalError"), "OK")
      BY <1>1, <2>3 DEF SucceedsWithError
    <3> QED BY <2>1, <3>1
  <2>4. CASE Refused(t)
    <3>1. PICK code, error : Ended(t, f, code, error, ResultOf(f.opts.verb, code, error), "OK")
      BY <1>1, <2>4 DEF Refused
    <3> QED BY <2>1, <3>1
  <2>5. CASE Breaks(t)
    <3>1. PICK h, p : h = Top(t) /\ stack' = Replaced(t, Attempted(Performed(h, Moved(h, p)), NOTSET, None, again))
      BY <2>5, BrokenRequest
    <3> QED BY <1>1, <3>1
  <2>6. CASE AnswerLost(t)
    <3>1. Ended(t, f, NOTSET, None, again, "BAD") BY <1>1, <2>6 DEF AnswerLost
    <3> QED BY <2>1, <3>1
  <2>7. CASE Distrusted(t)
    <3>1. PICK found : Ended(t, f, NOTSET, None, IF found THEN again ELSE "EIO", "BAD") BY <1>1, <2>7 DEF Distrusted
    <3> QED BY <2>1, <3>1
  <2> QED BY <2>2, <2>3, <2>4, <2>5, <2>6, <2>7 DEF Send
<1>5. PICK g, p, code, error, result : (g = f \/ g = Moved(f, p))
          /\ stack' = Replaced(t, Attempted(Performed(f, g), code, error, result))
  BY <1>4
<1>6. PICK a : a = Attempted(Performed(f, g), code, error, result) OBVIOUS
<1>7. a.keys = f.keys BY <1>3, <1>5, <1>6, AttemptedKeys
<1>8. stack' = Replaced(t, a) BY <1>5, <1>6
<1> QED BY <1>1, <1>2, <1>3, <1>7, <1>8, SameKeys

(* The API token is not a key of a request. *)
LEMMA ApiTokenKeys ==
  ASSUME IInv, KeysInv, NEW t \in Threads, ApiTokenAnswered(t)
  PROVE  KeysInv'
<1>1. /\ Len(stack[t]) = 2 /\ AfterApiToken(Top(t).result) /\ UNCHANGED start
      /\ stack' = Replaced(t, TokenRequest(GetIAMCredentials(cred'.imds > 1 /\ apiToken', FALSE)))
  BY DEF ApiTokenAnswered, IdleStart
<1>2. stack[t] # <<>> BY <1>1
<1>3. KeysFine(cred', cred') /\ cred'.ibm = cred.ibm
  BY <1>1 DEF AfterApiToken, KeysInv, KeysFine, OneKeys, IInv, CredInv, Creds
<1>4. PICK g : g = TokenRequest(GetIAMCredentials(cred'.imds > 1 /\ apiToken', FALSE)) OBVIOUS
<1>5. PICK c : c = cred' OBVIOUS
<1>6. KeysFine(c, g.keys) BY <1>4, NewKeys DEF TokenRequest
<1>7. stack' = Replaced(t, g) BY <1>1, <1>4
<1> QED BY <1>1, <1>2, <1>3, <1>5, <1>6, <1>7, TopKeys

(* The keys that were asked for sign the request that waits for them. *)
LEMMA AnsweredKeys ==
  ASSUME IInv, KeysInv, NEW t \in Threads, KeysAnswered(t)
  PROVE  KeysInv'
<1>1. Len(stack[t]) = 2 /\ UNCHANGED start BY DEF KeysAnswered, IdleStart
<1>2. stack[t] # <<>> /\ tokenLock = t
  <2>1. stack[t] # <<>> BY <1>1
  <2> QED BY <1>1, <2>1, TopFacts DEF IInv
<1>3. PICK f, h : Two(t, f, h) BY <1>2, TopFacts DEF IInv
<1>4. stack[t] = <<f, h>> /\ FrameInv(f) BY <1>3 DEF Two
<1>5. stack[t][1] = f BY <1>4
<1>6. PICK answer, u : /\ u = IF Top(t).result = Done
                             THEN SetIAMCredentials(cred, answer, ToString(now), now + Lifetime) ELSE Wrong(cred)
                       /\ cred' = u.cred
                       /\ stack' = [stack EXCEPT ![t] = IF u.ok THEN <<Signed(f, u.cred)>>
                                                        ELSE <<[f EXCEPT !.pc = "done", !.result = "EIO"]>>]
  BY <1>5 DEF KeysAnswered
<1>7. cred \in Creds(cred) /\ now + Lifetime \in Nat
  BY RequestAssumption DEF IInv, CredInv, StateTypes, RequestAssumption
<1>8. KeysFine(cred, cred) /\ KeysFine(cred, f.keys) /\ start' # "options"
  BY <1>1, <1>2, <1>5, TopFine DEF KeysInv
<1>9. PICK c : c = u.cred OBVIOUS
<1>10. KeysFine(c, c) /\ c.ibm = cred.ibm
  <2>1. CASE Top(t).result = Done
    <3>1. Kept(cred, u) BY <1>6, <1>7, <2>1, AnswersKeep
    <3>2. KeysFine(u.cred, u.cred) BY <1>6, <1>7, <1>8, <2>1, AnswerKeys
    <3> QED BY <1>9, <3>1, <3>2 DEF Kept
  <2>2. CASE Top(t).result # Done BY <1>6, <1>8, <1>9, <2>2, FineWrong
  <2> QED BY <2>1, <2>2
<1>11. PICK g : g = IF u.ok THEN Signed(f, c) ELSE [f EXCEPT !.pc = "done", !.result = "EIO"] OBVIOUS
<1>12. stack' = [stack EXCEPT ![t] = <<g>>]
  <2>1. CASE u.ok BY <1>6, <1>9, <1>11, <2>1
  <2>2. CASE ~u.ok BY <1>6, <1>11, <2>2
  <2> QED BY <2>1, <2>2
<1>13. KeysFine(c, g.keys)
  <2>1. CASE u.ok BY <1>4, <1>10, <1>11, <2>1, SignedKeys
  <2>2. CASE ~u.ok
    <3>1. g.keys = f.keys BY <1>4, <1>11, <2>2, OwnKeys
    <3> QED BY <1>8, <1>10, <3>1 DEF KeysFine
  <2> QED BY <2>1, <2>2
<1> QED BY <1>6, <1>8, <1>9, <1>10, <1>12, <1>13, OnlyKeys

(* A request that is done again with another SSE-C key, or by its worker, is signed anew. *)
LEMMA RestartKeys ==
  ASSUME IInv, KeysInv, NEW t \in Threads, NextKey(t) \/ Answered(t)
  PROVE  KeysInv'
<1>1. Len(stack[t]) = 1 /\ UNCHANGED <<cred, start>> BY DEF NextKey, Answered, Over, IdleStart
<1>2. stack[t] # <<>> /\ DOMAIN stack = Threads BY <1>1, OnlyRequest
<1>3. PICK f : f = Top(t) OBVIOUS
<1>4. FrameInv(f) /\ start' # "options" /\ KeysFine(cred', cred') BY <1>1, <1>2, <1>3, TopFine DEF KeysInv
<1>5. ASSUME NEW b, NEW auth, NEW loop, NEW k PROVE KeysFine(cred', [Request(b, auth, loop) EXCEPT !.key = k].keys)
  <2>1. PICK r : r = Request(b, auth, loop) OBVIOUS
  <2>2. "keys" \in DOMAIN r BY <2>1 DEF Request
  <2>3. [r EXCEPT !.key = k].keys = r.keys BY <2>2
  <2>4. PICK c : c = cred' OBVIOUS
  <2>5. KeysFine(c, r.keys) BY <2>1, NewKeys
  <2> QED BY <2>1, <2>3, <2>4, <2>5
<1>6. CASE NextKey(t)
  <2>1. PICK g : g = [Request(PreHeadRequest(f.key + 1), TRUE, f.loop) EXCEPT !.key = f.key + 1] OBVIOUS
  <2>2. stack' = [stack EXCEPT ![t] = <<g>>] BY <1>3, <1>6, <2>1 DEF NextKey
  <2>3. KeysFine(cred', g.keys) BY <1>5, <2>1
  <2> QED BY <1>1, <1>4, <2>2, <2>3, OnlyKeys
<1>7. CASE Answered(t)
  <2> DEFINE m == Mapped(f)
             v == IF m.loop = -1 THEN "result" ELSE LoopVerdict(m, curl[t])
  <2>1. stack' = CASE v = "result"  -> Replaced(t, [m EXCEPT !.pc = "over"])
                   [] v = "success" -> Replaced(t, [m EXCEPT !.pc = "over", !.result = Done])
                   [] v = "failure" -> Replaced(t, [m EXCEPT !.pc = "over", !.result = IF @ = Done THEN "EIO" ELSE @])
                   [] v = "repeat"  -> Replaced(t, Restarted(t, m))
    BY <1>3, <1>7 DEF Answered
  <2>2. v \in {"result", "success", "failure", "repeat"} BY DEF LoopVerdict
  <2> HIDE DEF v
  <2>3. CASE v = "repeat"
    <3>1. PICK g : g = Restarted(t, m) OBVIOUS
    <3>2. stack' = Replaced(t, g) BY <2>1, <2>3, <3>1
    <3>3. g.keys = NoKeys
      <4>1. PICK b : b = CASE m.type = "HEAD"          -> PreHeadRequest(0)
                           [] m.type = "GET"           -> PreGetObjectRequest
                           [] m.type = "COPYMULTIPOST" -> CopyPart
        OBVIOUS
      <4>2. PICK r : r = Request(b, TRUE, m.loop + 1) OBVIOUS
      <4>3. g = [r EXCEPT !.first = <<>>] BY <3>1, <4>1, <4>2 DEF Restarted
      <4>4. "keys" \in DOMAIN r /\ r.keys = NoKeys BY <4>2 DEF Request
      <4> QED BY <4>3, <4>4
    <3>4. KeysFine(cred', g.keys) BY <3>3, NoName DEF KeysFine
    <3> QED BY <1>1, <1>2, <1>4, <3>2, <3>4, TopKeys
  <2>4. CASE v # "repeat"
    <3>1. \E g : stack' = Replaced(t, g) /\ g.keys = f.keys
      <4>1. CASE v = "result" BY <1>4, <2>1, <4>1, OwnKeys
      <4>2. CASE v = "success" BY <1>4, <2>1, <4>2, OwnKeys
      <4>3. CASE v = "failure"
        <5>1. PICK r : r = IF m.result = Done THEN "EIO" ELSE m.result OBVIOUS
        <5>2. "result" \in DOMAIN [m EXCEPT !.pc = "over"] /\ [m EXCEPT !.pc = "over"].result = m.result
          <6>1. f \in Frame({f.keys}) BY <1>4 DEF FrameInv
          <6> QED BY <6>1 DEF Mapped, Frame
        <5>3. [m EXCEPT !.pc = "over", !.result = IF @ = Done THEN "EIO" ELSE @] = [m EXCEPT !.pc = "over", !.result = r]
          BY <5>1, <5>2
        <5>4. stack' = Replaced(t, [m EXCEPT !.pc = "over", !.result = r]) BY <2>1, <4>3, <5>3
        <5>5. [m EXCEPT !.pc = "over", !.result = r].keys = f.keys BY <1>4, OwnKeys
        <5> QED BY ONLY <5>4, <5>5
      <4> QED BY <2>2, <2>4, <4>1, <4>2, <4>3
    <3>2. PICK g : stack' = Replaced(t, g) /\ g.keys = f.keys BY <3>1
    <3> QED BY <1>1, <1>2, <1>3, <3>2, SameKeys
  <2> QED BY <2>3, <2>4
<1> QED BY <1>6, <1>7

(* The instructions of a worker. *)
LEMMA WorkerKeys ==
  ASSUME IInv, KeysInv, NEW w \in Workers, Instruct(w) \/ End(w)
  PROVE  KeysInv'
<1>1. w \in Threads /\ w # Main /\ UNCHANGED <<cred, start>> BY NoThread DEF Instruct, End, IdleStart
<1>2. KeysFine(cred', cred') BY <1>1 DEF KeysInv
<1>3. CASE Instruct(w)
  <2>1. PICK j : stack' = [stack EXCEPT ![w] = <<Request(j.built, TRUE, j.loop)>>] BY <1>3 DEF Instruct
  <2>2. PICK g : g = Request(j.built, TRUE, j.loop) OBVIOUS
  <2>3. stack' = [stack EXCEPT ![w] = <<g>>] BY <2>1, <2>2
  <2>4. KeysFine(cred, g.keys) BY <2>2, NewKeys
  <2>5. start' # "options" BY <1>1, <1>3 DEF Instruct
  <2> QED BY <1>1, <1>2, <2>3, <2>4, <2>5, OnlyKeys
<1>4. CASE End(w)
  <2>1. Len(stack[w]) = 1 /\ stack' = [stack EXCEPT ![w] = <<>>] BY <1>4 DEF End
  <2>2. start' # "options" BY <1>1, <2>1, OnlyRequest
  <2> QED BY <1>1, <2>1, <2>2, NobodysKeys
<1> QED BY <1>3, <1>4

(* While options are read there is no request, hence none with keys. *)
LEMMA NoFrames ==
  ASSUME IInv, start = "options", UNCHANGED stack
  PROVE  FramesFine'
<1>1. ASSUME NEW t \in Threads PROVE stack[t] = <<>> BY DEF IInv, PhaseInv, Threads
<1>2. \A t \in Threads : DOMAIN stack'[t] = {} BY <1>1
<1> QED BY <1>2 DEF FramesFine

(* The command line is read without keys, and the checks give those of one place. *)
LEMMA ReadKeys ==
  ASSUME IInv, KeysInv, Option \/ Params
  PROVE  KeysInv'
<1>1. start = "options" /\ UNCHANGED stack BY DEF Option, Params
<1>2. FramesFine' BY <1>1, NoFrames
<1>3. cred \in Creds(cred) /\ NothingYet(cred) /\ SecretsNamed(setup.machine) /\ setup \in SetupShape(setup.machine)
  BY <1>1 DEF IInv, CredInv, StateTypes, KeysInv
<1>4. CASE Option
  <2>1. setup.args # <<>> BY <1>4 DEF Option
  <2>2. PICK name, value : name \in OptionNames /\ name = Head(setup.args).name /\ value = Head(setup.args).value
    <3>1. Head(setup.args) \in [name : OptionNames, value : STRING] BY <1>3, <2>1, HeadTailProperties DEF SetupShape
    <3> QED BY <3>1
  <2>3. PICK c : c = cred OBVIOUS
  <2>4. NothingYet(DetectParam(c, name, value).cred) BY <1>3, <2>2, <2>3, OptionKeys
  <2>5. cred' = DetectParam(c, name, value).cred BY <1>4, <2>2, <2>3 DEF Option
  <2>6. NothingYet(cred') BY <2>4, <2>5
  <2>7. OneKeys(cred') BY <2>6, NoName
  <2>8. setup'.machine = setup.machine
    <3>1. setup' = [setup EXCEPT !.args = Tail(setup.args)] BY <1>4 DEF Option
    <3> QED BY <1>3, <3>1 DEF SetupShape
  <2> QED BY <1>2, <1>3, <2>6, <2>7, <2>8 DEF KeysInv, KeysFine
<1>5. CASE Params
  <2>1. PICK c, m : c = cred /\ m = setup.machine OBVIOUS
  <2>2. cred' = CheckAllParams(c, m).cred /\ start' # "options" BY <1>5, <2>1 DEF Params
  <2>3. OneKeys(CheckAllParams(c, m).cred) BY <1>3, <2>1, ParamsKeys
  <2> QED BY <1>2, <2>2, <2>3 DEF KeysInv, KeysFine
<1> QED BY <1>4, <1>5

(* The requests of the mount begin without keys. *)
LEMMA MountKeys ==
  ASSUME IInv, KeysInv, LoadRole \/ RoleTokenAnswered \/ RoleAnswered \/ FirstRefresh \/ CheckAnswered
  PROVE  KeysInv'
<1>1. Main \in Threads /\ KeysFine(cred, cred) /\ cred \in Creds(cred) /\ DOMAIN stack = Threads
  BY NoThread DEF KeysInv, IInv, CredInv, StacksInv
<1>2. \A c, b, auth, loop : KeysFine(c, Request(b, auth, loop).keys) BY NewKeys
<1>3. ASSUME UNCHANGED cred, start' # "options",
             UNCHANGED stack \/ stack' = [stack EXCEPT ![Main] = <<>>]
               \/ \E b, auth, loop : stack' = [stack EXCEPT ![Main] = <<Request(b, auth, loop)>>]
      PROVE  KeysInv'
  <2>1. CASE UNCHANGED stack BY <1>3, <2>1 DEF KeysInv, FramesFine
  <2>2. CASE stack' = [stack EXCEPT ![Main] = <<>>] BY <1>1, <1>3, <2>2, NobodysKeys
  <2>3. CASE \E b, auth, loop : stack' = [stack EXCEPT ![Main] = <<Request(b, auth, loop)>>]
    <3>1. PICK g : stack' = [stack EXCEPT ![Main] = <<g>>] /\ KeysFine(cred, g.keys) BY <1>2, <2>3
    <3> QED BY <1>1, <1>3, <3>1, OnlyKeys
  <2> QED BY <1>3, <2>1, <2>2, <2>3
<1>4. CASE LoadRole
  <2>1. UNCHANGED cred /\ start' # "options" BY <1>4 DEF LoadRole
  <2>2. CASE UNCHANGED stack BY <1>3, <2>1, <2>2
  <2>3. CASE stack' = [stack EXCEPT ![Main] = <<CredFrame>>] BY <1>3, <2>1, <2>3 DEF CredFrame
  <2>4. CASE stack' = [stack EXCEPT ![Main] = <<AskApiToken>>] BY <1>3, <2>1, <2>4 DEF AskApiToken, TokenRequest
  <2>5. CASE stack' = [stack EXCEPT ![Main] = <<AskRole(cred, apiToken)>>]
    BY <1>3, <2>1, <2>5 DEF AskRole, TokenRequest
  <2>6. \/ UNCHANGED stack \/ stack' = [stack EXCEPT ![Main] = <<CredFrame>>]
        \/ stack' = [stack EXCEPT ![Main] = <<AskApiToken>>] \/ stack' = [stack EXCEPT ![Main] = <<AskRole(cred, apiToken)>>]
    <3>1. PICK a, r, c : a = AskApiToken /\ r = AskRole(cred, apiToken) /\ c = CredFrame OBVIOUS
    <3>2. \/ UNCHANGED stack \/ stack' = [stack EXCEPT ![Main] = <<c>>]
          \/ stack' = [stack EXCEPT ![Main] = <<IF ~cred.ecs /\ ~cred.ibm /\ cred.imds > 1 THEN a ELSE r>>]
      BY <1>4, <3>1, Zenon DEF LoadRole
    <3>3. \/ UNCHANGED stack \/ stack' = [stack EXCEPT ![Main] = <<c>>] \/ stack' = [stack EXCEPT ![Main] = <<a>>]
          \/ stack' = [stack EXCEPT ![Main] = <<r>>]
      BY <3>2
    <3> QED BY <3>1, <3>3
  <2> QED BY <2>2, <2>3, <2>4, <2>5, <2>6
<1>5. CASE RoleTokenAnswered
  <2>1. /\ AfterApiToken(Top(Main).result) /\ start' # "options"
        /\ stack' = [stack EXCEPT ![Main] = <<AskRole(cred', apiToken')>>]
    BY <1>5 DEF RoleTokenAnswered, IdleStart
  <2>2. KeysFine(cred', cred') /\ cred'.ibm = cred.ibm
    BY <1>1, <2>1 DEF AfterApiToken, KeysFine, OneKeys, Creds
  <2>3. PICK c, k, g : c = cred' /\ k = apiToken' /\ g = AskRole(c, k) OBVIOUS
  <2>4. KeysFine(c, g.keys) BY <1>2, <2>3 DEF AskRole, TokenRequest
  <2>5. stack' = [stack EXCEPT ![Main] = <<g>>] BY <2>1, <2>3
  <2> QED BY <1>1, <2>1, <2>2, <2>3, <2>4, <2>5, OnlyKeys
<1>6. CASE RoleAnswered
  <2>1. PICK role, u : /\ u = (IF Top(Main).result = Done THEN SetIAMRole(cred, role) ELSE Wrong(cred))
                       /\ cred' = u.cred /\ start' = (IF u.ok THEN "cred" ELSE "exited")
                       /\ stack' = [stack EXCEPT ![Main] = IF u.ok THEN <<CredFrame>> ELSE <<>>]
    BY <1>6 DEF RoleAnswered
  <2>2. KeysFine(u.cred, u.cred) /\ u.cred.ibm = cred.ibm
    <3>1. 0 \in Nat OBVIOUS
    <3>2. CASE Top(Main).result = Done BY <1>1, <2>1, <3>1, <3>2, AnswersKeep, AnswerKeys DEF Kept
    <3>3. CASE Top(Main).result # Done BY <1>1, <2>1, <3>3, FineWrong
    <3> QED BY <3>2, <3>3
  <2>3. start' # "options" BY <2>1
  <2>4. PICK g : g = CredFrame OBVIOUS
  <2>5. KeysFine(u.cred, g.keys) BY <1>2, <2>4 DEF CredFrame
  <2>6. CASE u.ok
    <3>1. stack' = [stack EXCEPT ![Main] = <<g>>] BY <2>1, <2>4, <2>6
    <3> QED BY <1>1, <2>1, <2>2, <2>3, <2>5, <3>1, OnlyKeys
  <2>7. CASE ~u.ok
    <3>1. PICK s : s = <<>> OBVIOUS
    <3>2. stack' = [stack EXCEPT ![Main] = s] /\ DOMAIN s = {} BY <2>1, <2>7, <3>1
    <3> QED BY <1>1, <2>1, <2>2, <2>3, <3>2, StackKeys
  <2> QED BY <2>6, <2>7
<1>7. CASE FirstRefresh
  <2>1. UNCHANGED cred /\ start' # "options" BY <1>7 DEF FirstRefresh
  <2>2. CASE stack' = [stack EXCEPT ![Main] = <<AskCheck(setup)>>] BY <1>3, <2>1, <2>2 DEF AskCheck
  <2>3. CASE stack' = [stack EXCEPT ![Main] = <<>>] BY <1>3, <2>1, <2>3
  <2> QED BY <1>7, <2>2, <2>3 DEF FirstRefresh
<1>8. CASE CheckAnswered
  <2>1. PICK goes, s : /\ stack' = [stack EXCEPT ![Main] = IF goes THEN <<AskCheck(s)>> ELSE <<>>]
                       /\ UNCHANGED cred /\ start' # "options"
    BY <1>8 DEF CheckAnswered
  <2>2. CASE goes
    <3>1. PICK g : g = AskCheck(s) OBVIOUS
    <3>2. stack' = [stack EXCEPT ![Main] = <<g>>] BY <2>1, <2>2, <3>1
    <3>3. KeysFine(cred, g.keys) BY <1>2, <3>1 DEF AskCheck
    <3> QED BY <1>1, <2>1, <3>2, <3>3, OnlyKeys
  <2>3. CASE ~goes
    <3>1. stack' = [stack EXCEPT ![Main] = <<>>] BY <2>1, <2>3
    <3> QED BY <1>3, <2>1, <3>1
  <2> QED BY <2>2, <2>3
<1> QED BY <1>4, <1>5, <1>6, <1>7, <1>8

(* Nothing is known before the options are read. *)
LEMMA InitKeys == Init => KeysInv
<1> SUFFICES ASSUME Init PROVE KeysInv OBVIOUS
<1>1. NothingYet(cred) BY DEF Init, NewCred, NothingYet
<1>2. SecretsNamed(setup.machine) BY NamingAssumption DEF Init
<1>3. FramesFine BY DEF Init, FramesFine
<1> QED BY <1>1, <1>2, <1>3, NoName DEF KeysInv, KeysFine

LEMMA NextKeys == IInv /\ KeysInv /\ [Next]_vars => KeysInv'
<1> SUFFICES ASSUME IInv, KeysInv, [Next]_vars PROVE KeysInv' OBVIOUS
<1>1. CASE Mount BY <1>1, ReadKeys, MountKeys DEF Mount
<1>2. CASE Tick BY <1>2 DEF Tick, KeysInv, FramesFine
<1>3. ASSUME NEW t \in Threads, Performs(t) PROVE KeysInv'
  BY <1>3, SignKeys, SendKeys, ApiTokenKeys, AnsweredKeys, RestartKeys DEF Performs
<1>4. ASSUME NEW w \in Workers, Instruct(w) \/ End(w) PROVE KeysInv' BY <1>4, WorkerKeys
<1>5. CASE UNCHANGED vars BY <1>5 DEF vars, KeysInv, FramesFine
<1> QED BY <1>1, <1>2, <1>3, <1>4, <1>5 DEF Next

(* Every signed request has the keys of one source. *)
LEMMA InvKeys == IInv /\ KeysInv => KeysOfOneSource
<1> SUFFICES ASSUME KeysInv, NEW f \in Frames, ~cred.ibm PROVE OneName({f.keys.id, f.keys.secret, f.keys.token})
  BY DEF KeysOfOneSource
<1>1. PICK t \in Threads : \E i \in DOMAIN stack[t] : f = stack[t][i] BY DEF Frames
<1>2. KeysFine(cred, f.keys) BY <1>1 DEF KeysInv, FramesFine
<1> QED BY <1>2 DEF KeysFine, OneKeys

-----------------------------------------------------------------------------
(* The stack of a thread and what S3 and curl know of it keep their shape: at most a request and the   *)
(* token request above it, whose thread holds token_lock; no attempt beyond the retries and no         *)
(* position beyond the body (RequestPerform's loop, RemakeHandle, CheckIAMCredentialUpdate).           *)
THEOREM TypeCorrect == Spec => []ReqTypeOK
<1>1. Init => IInv BY InitInv
<1>2. IInv /\ [Next]_vars => IInv' BY NextInv
<1>3. IInv => ReqTypeOK BY InvType
<1> QED BY <1>1, <1>2, <1>3, PTL DEF Spec

(* Whatever went wrong in the attempts before, the next one sends the first one's request again, but   *)
(* for the three things that SameRequestAgain names: RemakeHandle against every builder.               *)
THEOREM RepeatedRequestIsTheSame == Spec => []SameRequestAgain
<1>1. Init => IInv BY InitInv
<1>2. IInv /\ [Next]_vars => IInv' BY NextInv
<1>3. IInv => SameRequestAgain BY InvSame
<1> QED BY <1>1, <1>2, <1>3, PTL DEF Spec

(* A request whose caller sees a success that was answered was done by S3, with its whole body, and    *)
(* the range of a download is in the file, for any number of retries, threads and refusals.            *)
THEOREM SuccessIsDone == Spec => []SuccessMeansDone
<1>1. Init => IInv BY InitInv
<1>2. IInv /\ [Next]_vars => IInv' BY NextInv
<1>3. IInv => SuccessMeansDone BY InvSuccess
<1> QED BY <1>1, <1>2, <1>3, PTL DEF Spec

(* The id, the secret and the token a request is signed with come from one pair, one file, one section *)
(* or one answer, whatever the files hold, whoever renews the keys meanwhile and however often a       *)
(* renewal fails (ReadS3fsPasswdFile, ReadAwsCredentialFile, SetIAMCredentials, insertAuthHeaders).    *)
THEOREM KeysComeFromOneSource == Spec => []KeysOfOneSource
<1>1. Init => IInv /\ KeysInv BY InitInv, InitKeys
<1>2. (IInv /\ KeysInv) /\ [Next]_vars => (IInv /\ KeysInv)' BY NextInv, NextKeys
<1>3. IInv /\ KeysInv => KeysOfOneSource BY InvKeys
<1> QED BY <1>1, <1>2, <1>3, PTL DEF Spec
==============================================================================
