----------------------------- MODULE Credentials -----------------------------
(***************************************************************************)
(* The S3fsCred object: what the -o options and the files and variables of  *)
(* the machine make of it before the mount, and what the answer of a        *)
(* credential service makes of it afterwards.  A secret is named by where   *)
(* it was written, so keys that do not belong together can be told apart.   *)
(*                                                                          *)
(* options of a mount (one record):                                         *)
(*   passwd, profile, lib, libopts, role  the strings of the options        *)
(*   ibm, session, ecs, loadrole          the flags                         *)
(*   imds, fields, builtin                IAM_api_version, IAM_field_count  *)
(*                                        and set_builtin_cred_opts         *)
(*   id, secret, token, expire            AWSAccessKeyId and its companions *)
(***************************************************************************)
EXTENDS Naturals, Sequences, FiniteSets

None == ""

NewCred ==
  [passwd |-> None, profile |-> "default", lib |-> None, libopts |-> None, role |-> None,
   ibm |-> FALSE, session |-> FALSE, ecs |-> FALSE, loadrole |-> FALSE,
   imds |-> 2, fields |-> 4, builtin |-> FALSE,
   id |-> None, secret |-> None, token |-> None, expire |-> 0]

------------------------------------------------------------------------------
(* The outcome of one option, of one file or of all checks: go on or exit. *)
Fine(c)  == [ok |-> TRUE, cred |-> c]
Wrong(c) == [ok |-> FALSE, cred |-> c]

(* DetectParam: one -o option.  Options are looked at in the order of the command line. *)
DetectParam(c, name, value) ==
  LET b == [c EXCEPT !.builtin = TRUE] IN
  CASE name = "passwd_file"       -> Fine([b EXCEPT !.passwd = value])
    [] name = "ibm_iam_auth"      -> Fine([b EXCEPT !.ibm = TRUE, !.fields = 2, !.imds = 1])
    [] name = "use_session_token" -> Fine([b EXCEPT !.session = TRUE])
    [] name = "ibm_iam_endpoint"  -> IF value = "noscheme" THEN Wrong(c) ELSE Fine(b)
    [] name = "imdsv1only"        -> Fine([b EXCEPT !.imds = 1])
    [] name = "ecs"               -> IF c.ibm THEN Wrong(c)
                                     ELSE Fine([b EXCEPT !.ecs = TRUE, !.imds = 1, !.fields = 5])
    [] name = "iam_role"          -> IF c.ecs \/ c.ibm THEN Wrong(c)
                                     ELSE IF value \in {None, "auto"} THEN Fine([b EXCEPT !.loadrole = TRUE])
                                     ELSE Fine([b EXCEPT !.role = value, !.loadrole = FALSE])
    [] name = "profile"           -> Fine([b EXCEPT !.profile = IF value = None THEN c.profile ELSE value])
    [] name = "credlib"           -> IF value = None THEN Wrong(c) ELSE Fine([c EXCEPT !.lib = value])
    [] name = "credlib_opts"      -> IF value = None THEN Wrong(c) ELSE Fine([c EXCEPT !.libopts = value])

------------------------------------------------------------------------------
(* Setting and having keys. *)

SetAccessKey(c, id, secret) ==
  IF (~c.ibm /\ id = None) \/ secret = None THEN Wrong(c)
  ELSE Fine([c EXCEPT !.id = id, !.secret = secret])

SetAccessKeyWithSessionToken(c, id, secret, token) ==
  IF (~c.ibm /\ id = None) \/ secret = None \/ token = None THEN Wrong(c)
  ELSE Fine([c EXCEPT !.id = id, !.secret = secret, !.token = token, !.session = TRUE])

IsSetAccessKeys(c) == c.role # None \/ ((c.id # None \/ c.ibm) /\ c.secret # None)

------------------------------------------------------------------------------
(***************************************************************************)
(* Files.  A password file is [there, mode, lines]; its lines have kinds    *)
(* "bad" (white space or a bracket), "key" (key=value: name, value) and     *)
(* "pair" (bucket, id, secret; the bucket is None for every bucket).        *)
(***************************************************************************)
NoFile == [there |-> FALSE, mode |-> {}, lines |-> <<>>]

(* CheckS3fsPasswdFilePerms: mode is the set of the permissions beyond read and write of the user. *)
PermsAllowed(file, system) ==
  /\ file.there
  /\ file.mode \cap {"others", "userexec", "groupexec"} = {}
  /\ IF system THEN "groupwrite" \notin file.mode
               ELSE file.mode \cap {"groupread", "groupwrite"} = {}

LinesOf(file, kind) == {i \in 1 .. Len(file.lines) : file.lines[i].kind = kind}

(* ParseS3fsPasswdFile: the first value of a name stands, a second pair of a bucket is an error. *)
Parsable(file) ==
  /\ LinesOf(file, "bad") = {}
  /\ \A i, j \in LinesOf(file, "pair") : i # j => file.lines[i].bucket # file.lines[j].bucket

ValueOf(file, name) ==
  LET named == {i \in LinesOf(file, "key") : file.lines[i].name = name}
  IN {file.lines[i].value : i \in {k \in named : \A j \in named : k <= j}}

(* ReadS3fsPasswdFile: key=value lines come first, then the pair of the bucket, then that of all. *)
ReadS3fsPasswdFile(c, file, system, bucket) ==
  LET ids     == ValueOf(file, "AWSAccessKeyId")
      secrets == ValueOf(file, "AWSSecretKey")
      pairs   == {file.lines[i] : i \in LinesOf(file, "pair")}
      own     == {p \in pairs : p.bucket = bucket}
      used    == IF own # {} THEN own ELSE {p \in pairs : p.bucket = None}
  IN IF ~PermsAllowed(file, system) \/ ~Parsable(file) THEN Wrong(c)
     ELSE IF ids # {} /\ secrets # {}
     THEN SetAccessKey(c, CHOOSE i \in ids : TRUE, CHOOSE s \in secrets : TRUE)
     ELSE IF ids \cup secrets # {} \/ used = {} THEN Wrong(c)
     ELSE LET p == CHOOSE p \in used : TRUE IN SetAccessKey(c, p.id, p.secret)

\* a section keeps the keys of those before it
SectionKeeps(lines, head) ==
  {i \in 1 .. Len(lines) : \A k \in head + 1 .. i : lines[k].kind # "section"}

(* The lines of the section that begins at a line: those up to the next section. *)
SectionAt(lines, head) ==
  {i \in head + 1 .. Len(lines) : \A k \in head + 1 .. i : lines[k].kind # "section"}

(* The last value of a field stands. *)
FieldOf(lines, own, kind) ==
  LET given == {i \in own : lines[i].kind = kind}
      last  == {i \in given : \A j \in given : j <= i}
  IN IF last = {} THEN None ELSE lines[CHOOSE i \in last : TRUE].value

(* ReadAwsCredentialFile: the first section of the profile counts, and it alone.  The lines of the *)
(* file are [kind |-> "section", value] or a field ("id", "secret", "token").                      *)
ReadAwsCredentialFile(c, file) ==
  LET heads  == {i \in LinesOf(file, "section") : file.lines[i].value = c.profile}
      first  == {i \in heads : \A j \in heads : i <= j}
      own    == SectionAt(file.lines, CHOOSE i \in first : TRUE)
      id     == FieldOf(file.lines, own, "id")
      secret == FieldOf(file.lines, own, "secret")
      token  == FieldOf(file.lines, own, "token")
  IN IF ~file.there \/ first = {} \/ (token = None /\ c.session) THEN Wrong(c)
     ELSE IF token = None THEN SetAccessKey(c, id, secret)
     ELSE SetAccessKeyWithSessionToken(c, id, secret, token)

------------------------------------------------------------------------------
(***************************************************************************)
(* The machine: public (public_bucket), private (no default ACL beside      *)
(* private and public-read), bucket, env (id, secret, token), named         *)
(* (AWS_CREDENTIAL_FILE is set), the files opt (that of the passwd_file     *)
(* option), env_file (that of the variable), aws, home and etc, and         *)
(* lib: "missing", "broken", "refuses" or "good" for the external library.  *)
(***************************************************************************)
FromEnvironment(c, env) ==
  IF env.id = None \/ env.secret = None THEN Wrong(c)
  ELSE IF env.token = None /\ c.session THEN Wrong(c)
  ELSE IF env.token = None THEN SetAccessKey(c, env.id, env.secret)
  ELSE SetAccessKeyWithSessionToken(c, env.id, env.secret, env.token)

(* InitialS3fsCredentials: the places are tried in order. *)
InitialS3fsCredentials(c, m) ==
  LET aws  == ReadAwsCredentialFile(c, m.aws)
      home == ReadS3fsPasswdFile(c, m.home, FALSE, m.bucket)
  IN IF IsSetAccessKeys(c) THEN Fine(c)
     ELSE IF c.passwd # None THEN ReadS3fsPasswdFile(c, m.opt, FALSE, m.bucket)
     ELSE IF m.env.id # None \/ m.env.secret # None THEN FromEnvironment(c, m.env)
     ELSE IF m.named THEN ReadS3fsPasswdFile(c, m.env_file, FALSE, m.bucket)
     ELSE IF aws.ok THEN aws
     ELSE IF c.profile # "default" THEN Wrong(c)
     ELSE IF m.home.there THEN home
     ELSE IF m.etc.there THEN ReadS3fsPasswdFile(c, m.etc, TRUE, m.bucket)
     ELSE Wrong(c)

(* LoadExtCredLib, InitExtCredLib: the library is there, has what is required and accepts. *)
InitExtCredLib(c, m) == IF m.lib = "good" THEN Fine(c) ELSE Wrong(c)

(* CheckAllParams, after the last option. *)
CheckAllParams(c, m) ==
  LET deferred == m.public \/ c.loadrole \/ c.ecs \/ c.lib # None
      found    == IF deferred THEN Fine(c) ELSE InitialS3fsCredentials(c, m)
      k        == found.cred
      external == k.lib # None \/ k.libopts # None
  IN IF \/ IsSetAccessKeys(c) /\ (m.public \/ c.passwd # None)
        \/ ~found.ok
        \/ ~deferred /\ ~IsSetAccessKeys(k)
        \/ k.ibm /\ ~m.private
        \/ external /\ (k.builtin \/ k.lib = None)
     THEN Wrong(c)
     ELSE IF external THEN InitExtCredLib(k, m)
     ELSE Fine(k)

------------------------------------------------------------------------------
(* Refreshing. *)

Refreshed(c) == c.ibm \/ c.lib # None \/ c.ecs \/ c.role # None

(* The token that goes with a signature (CheckIAMCredentialUpdate). *)
KeysFor(c) ==
  [id |-> c.id, secret |-> c.secret,
   token |-> IF Refreshed(c) \/ c.session THEN c.token ELSE None]

(* An answer of a credential service is the set of the fields in it, all of one issue. *)
WholeAnswer(c) ==
  IF c.ibm THEN {"token", "expire"}
  ELSE {"id", "secret", "token", "expire"} \cup (IF c.ecs THEN {"arn"} ELSE {})

(* SetIAMCredentials: nothing is taken from an answer that lacks something. *)
SetIAMCredentials(c, answer, issue, expire) ==
  IF \/ Cardinality(answer) # c.fields
     \/ "token" \notin answer \/ "expire" \notin answer
     \/ ~c.ibm /\ ~({"id", "secret"} \subseteq answer)
  THEN Wrong(c)
  ELSE IF c.ibm THEN Fine([c EXCEPT !.token = issue, !.expire = expire])
  ELSE Fine([c EXCEPT !.id = issue, !.secret = issue, !.token = issue, !.expire = expire])

(* UpdateExtCredentials: an incomplete answer of the library is refused. *)
UpdateExtCredentials(c, answer, issue, expire) ==
  IF ~({"id", "secret", "token", "expire"} \subseteq answer) THEN Wrong(c)
  ELSE Fine([c EXCEPT !.id = issue, !.secret = issue, !.token = issue, !.expire = expire])

(* SetIAMRoleFromMetaData *)
SetIAMRole(c, role) == IF role = None THEN Wrong(c) ELSE Fine([c EXCEPT !.role = role])

------------------------------------------------------------------------------
(***************************************************************************)
(* The names of secrets: one for each place where keys are written.  A pair *)
(* of a password file is a place, its key=value lines together are one, and *)
(* so are the environment and each section of the AWS file.                 *)
(***************************************************************************)
OneName(S) == \A x, y \in S \ {None} : x = y

PasswdNamed(file) ==
  /\ OneName({file.lines[i].value : i \in LinesOf(file, "key")})
  /\ \A i \in LinesOf(file, "pair") : OneName({file.lines[i].id, file.lines[i].secret})

AwsNamed(file) ==
  \A i, j \in 1 .. Len(file.lines) :
    (\A n \in i .. j : file.lines[n].kind # "section") => i > j \/ OneName({file.lines[i].value, file.lines[j].value})

SecretsNamed(m) ==
  /\ OneName({m.env.id, m.env.secret, m.env.token})
  /\ PasswdNamed(m.opt) /\ PasswdNamed(m.env_file) /\ PasswdNamed(m.home) /\ PasswdNamed(m.etc)
  /\ AwsNamed(m.aws)
==============================================================================
