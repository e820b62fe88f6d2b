----------------------------- MODULE MCS3Request -----------------------------
(* Command lines, machines and jobs for the model checker. *)
EXTENDS S3Request
CONSTANTS w1, w2

Job(b, loop) == [built |-> b, loop |-> loop]
NoJobs  == (w1 :> {}) @@ (w2 :> {})
Every   == (w1 :> Jobs) @@ (w2 :> {})
OneJob  == (w1 :> {Job(PreGetObjectRequest, 0)}) @@ (w2 :> {})
TwoJobs == (w1 :> {Job(ListBucketRequest, -1)}) @@ (w2 :> {Job(DeleteRequest, -1)})

Pair(b, k)  == [kind |-> "pair", bucket |-> b, id |-> k, secret |-> k]
Passwd(ls)  == [there |-> TRUE, mode |-> {}, lines |-> ls]
Key(n, k)   == [kind |-> "key", name |-> n, value |-> k]
Field(k, v) == [kind |-> k, value |-> v]
Aws == Passwd(<<Field("section", "default"), Field("id", "default"), Field("secret", "default"),
                Field("token", "default"),
                Field("section", "work"), Field("id", "work"), Field("secret", "work"),
                Field("section", "play"), Field("secret", "play")>>)

NoMachine == [public |-> FALSE, private |-> TRUE, bucket |-> "b", ecs |-> TRUE, named |-> FALSE,
              env |-> [id |-> None, secret |-> None, token |-> None], lib |-> "missing",
              opt |-> NoFile, env_file |-> NoFile, aws |-> NoFile, home |-> NoFile, etc |-> NoFile]
Opt(n, v) == [name |-> n, value |-> v]
Setup(args, machine, load) ==
  [args |-> args, machine |-> machine, jobs |-> load,
   host |-> "own", region |-> FALSE, sig |-> "V4", nosse |-> FALSE]

Home    == Passwd(<<Pair(None, "all"), Pair("b", "own")>>)
Group   == [Home EXCEPT !.mode = {"groupread"}]
Lines   == Passwd(<<Key("AWSSecretKey", "lines"), Pair("b", "own"), Key("AWSAccessKeyId", "lines")>>)
EnvKeys == [id |-> "env", secret |-> "env", token |-> "env"]
SetupsDef ==
  {[Setup(<<>>, [NoMachine EXCEPT !.home = Home], NoJobs)
      EXCEPT !.host = h, !.region = r, !.sig = v]
     : h \in {"default", "own"}, r \in BOOLEAN, v \in {"V2", "V4", "V2_OR_V4"}}
  \cup
  {Setup(<<>>, [NoMachine EXCEPT !.env = EnvKeys], Every),
   Setup(<<Opt("profile", "work")>>, [NoMachine EXCEPT !.aws = Aws], NoJobs),
   Setup(<<Opt("profile", "play")>>, [NoMachine EXCEPT !.aws = Aws], NoJobs),
   Setup(<<Opt("use_session_token", None)>>, [NoMachine EXCEPT !.aws = Aws, !.home = Home], NoJobs),
   Setup(<<>>, [NoMachine EXCEPT !.etc = Group], NoJobs),
   Setup(<<>>, [NoMachine EXCEPT !.named = TRUE, !.env_file = Group], NoJobs),
   Setup(<<>>, [NoMachine EXCEPT !.named = TRUE, !.env_file = Lines], NoJobs),
   Setup(<<Opt("passwd_file", "f"), Opt("ibm_iam_auth", None)>>, [NoMachine EXCEPT !.opt = Home], OneJob),
   Setup(<<Opt("ibm_iam_auth", None), Opt("ecs", None)>>, NoMachine, NoJobs),
   Setup(<<Opt("ibm_iam_auth", None)>>, [NoMachine EXCEPT !.public = TRUE], NoJobs),
   Setup(<<Opt("ecs", None)>>, NoMachine, NoJobs),
   Setup(<<Opt("ecs", None)>>, [NoMachine EXCEPT !.ecs = FALSE], NoJobs),
   Setup(<<Opt("iam_role", "auto")>>, NoMachine, TwoJobs),
   Setup(<<Opt("iam_role", "given"), Opt("imdsv1only", None)>>, NoMachine, NoJobs),
   Setup(<<Opt("credlib", "l")>>, [NoMachine EXCEPT !.lib = "good"], OneJob),
   Setup(<<Opt("credlib", "l"), Opt("profile", "work")>>, [NoMachine EXCEPT !.lib = "good"], NoJobs)}
HomeSetup == {Setup(<<>>, [NoMachine EXCEPT !.home = Home], NoJobs)}
==============================================================================
