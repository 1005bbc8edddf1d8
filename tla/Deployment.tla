------------------------------- MODULE Deployment -------------------------------
(***************************************************************************)
(* How a server starts: the authentication of the HTTP transports          *)
(* (remote_entrypoint.py, __main__.py, docker_entrypoint.py, build_auth),  *)
(* the tools that are left after plugins, profile and filter               *)
(* (server_core.py, tools_sign.py, server.py), and what the setup wizard   *)
(* leaves behind (setup_wizard.py).                                        *)
(***************************************************************************)
EXTENDS ToolCalls, SequencesExt, Integers

CONSTANTS
  StartInputs,    \* of [docker, transport, host, allow, args, external, github, url, users,
                  \* token]; args are those of the command line, [transport, host, allow],
                  \* "none" where one is left out, and the rest is the environment
  BuiltinTools,
  SignTools,
  SurfaceInputs,  \* of [plugins, include, exclude, profile]; see Surface
  WizardInputs    \* of [before, connects, insists, cancelled]

\* build_auth: the names of ODOO_MCP_AUTH_* that are set.
ExternalNames == {"ISSUER_URL", "INTROSPECTION_URL", "RESOURCE_URL"}
External(env) ==
  CASE env.external = ExternalNames -> "on"
    [] env.external = {} -> "off"
    [] OTHER -> "invalid"

\* _configure_github_oauth: the credentials set, the public URL and the users.
Github(env) ==
  IF env.github # {"ID", "SECRET"} THEN "off"
  ELSE IF env.url = "https" /\ env.users # {} THEN "on" ELSE "invalid"

\* MCPAuthGate
Gate(env) ==
  CASE env.token = "digest" -> "static-bearer"
    [] env.token = "" -> "fail-closed"
    [] OTHER -> "refused"

\* Mutant: GitHub sign-in is preferred to a half-configured issuer.
RemoteMode_GithubFirst(env) ==
  IF env.host # "local" /\ ~env.allow THEN "refused"
  ELSE IF Github(env) = "on" THEN "github-oauth"
  ELSE IF External(env) = "on" THEN "external-oauth"
  ELSE IF "invalid" \in {External(env), Github(env)} THEN "refused" ELSE Gate(env)

\* remote_entrypoint.build_app with _configure_oauth, which read the environment.
RemoteMode(env) ==
  IF ~(env.host = "local" \/ env.allow) \/ External(env) = "invalid" THEN "refused"
  ELSE IF External(env) = "on" THEN IF env.github = {} THEN "external-oauth" ELSE "refused"
  ELSE CASE Github(env) = "on" -> "github-oauth"
         [] Github(env) = "invalid" -> "refused"
         [] Github(env) = "off" -> Gate(env)

\* __main__.parse_args: an argument goes before the environment.
Transport(env) == IF env.args.transport = "none" THEN env.transport ELSE env.args.transport
Host(env) == IF env.args.host = "none" THEN env.host ELSE env.args.host
Allowed(env) == env.args.allow \/ env.allow

\* __main__.configure_mcp_runtime with configure_oauth.
CliMode(env) ==
  IF External(env) = "invalid" THEN "refused"
  ELSE IF Transport(env) = "stdio" THEN "stdio"
  ELSE IF Host(env) # "local" /\ ~Allowed(env) THEN "refused"
  ELSE IF External(env) = "on" THEN "external-oauth" ELSE "open"

\* docker_entrypoint.main looks at MCP_TRANSPORT only; the arguments, which the
\* image passes on, are read by whoever it starts.
Mode(env) == IF env.docker /\ env.transport # "stdio" THEN RemoteMode(env) ELSE CliMode(env)
StartServer == \E env \in StartInputs : Call("start", env, Mode(env))

-----------------------------------------------------------------------------
\* load_plugins and _apply_profile: a plugin is [tools, installed, fails], the
\* tools it registers before it fails or returns; the sign plugin ends with
\* dropping every tool that is not its own, if the profile says so.
LoadPlugin(s, plugin) ==
  LET registered == s.tools \cup plugin.tools IN
    CASE ~plugin.installed -> [s EXCEPT !.failed = @ \cup {plugin}]
      [] plugin.installed /\ plugin.fails -> [s EXCEPT !.failed = @ \cup {plugin}, !.tools = registered]
      [] OTHER -> [s EXCEPT !.loaded = @ \cup {plugin},
                            !.tools = IF plugin.sign /\ s.profile THEN registered \cap SignTools
                                      ELSE registered]
LoadPlugins(in) ==
  LET after[n \in 0..Len(in.plugins)] ==
        IF n = 0 THEN [tools |-> BuiltinTools, loaded |-> {}, failed |-> {},
                       profile |-> in.profile]
        ELSE LoadPlugin(after[n - 1], in.plugins[n])
  IN after[Len(in.plugins)]

\* apply_tool_filter, after the plugins; a pattern is the set it matches.
Kept(in, tool) ==
  /\ in.include = {} \/ \E pattern \in in.include : tool \in pattern
  /\ \A pattern \in in.exclude : tool \notin pattern
AssembleServer ==
  \E in \in SurfaceInputs :
    LET s == LoadPlugins(in) IN
      Call("assemble", in,
        [tools |-> {t \in s.tools : Kept(in, t)}, loaded |-> s.loaded, failed |-> s.failed])

-----------------------------------------------------------------------------
\* run_setup: the questions are the details, whether to save in spite of a
\* failed test, and the path; cancelled is the question at which the user
\* gave up (0 for none).
Questions(in) == IF in.connects THEN {1, 3} ELSE {1, 2, 3}
\* Only a question that is asked can be given up at.
ASSUME DeploymentAssumption ==
  /\ \A in \in SurfaceInputs : in.plugins \in Seq(ToSet(in.plugins))
  /\ \A in \in WizardInputs :
       in.before # "written" /\ in.cancelled \in {0} \cup Questions(in)
Saved(in) == (in.connects \/ in.insists) /\ in.cancelled \notin Questions(in)
RunSetup ==
  \E in \in WizardInputs :
    Call("setup", in, [exit |-> IF Saved(in) THEN 0 ELSE 1,
                       after |-> IF Saved(in) THEN "written" ELSE in.before])

-----------------------------------------------------------------------------
\* A container that MCP_TRANSPORT makes serve HTTP does not do so without
\* authentication: whatever half of a configuration is set, it is refused,
\* guarded or closed.  HTTP is open only where no OAuth server is configured and
\* the command line starts it, in a container only when an argument asks for HTTP
\* and MCP_TRANSPORT does not; and beyond the local host only when the operator
\* said so.  A configured OAuth server is never dropped for a weaker guard.
HttpIsGuarded ==
  Answers("start") =>
    LET env == call.in
        remote == env.docker /\ env.transport # "stdio"
    IN
      /\ remote => call.out \notin {"open", "stdio"}
      /\ call.out = "open" =>
           /\ env.external = {}
           /\ env.docker => env.transport = "stdio" /\ env.args.transport \notin {"none", "stdio"}
      /\ call.out \notin {"refused", "stdio", "fail-closed"} =>
           IF remote THEN env.host = "local" \/ env.allow
                     ELSE Host(env) = "local" \/ Allowed(env)
      /\ env.external # {} => call.out \in {"external-oauth", "stdio", "refused"}
      /\ call.out = "github-oauth" => env.url = "https" /\ env.users # {}
      /\ call.out = "static-bearer" => env.token = "digest" /\ env.github # {"ID", "SECRET"}

\* What the image says of itself: HTTP goes through the fail-closed entry point.
\* Not so when the transport is an argument (see the README).
ContainersServeGuarded == Answers("start") /\ call.in.docker => call.out # "open"

\* Every tool that is served passes the filter and comes from the server or from
\* a plugin; every plugin asked for is accounted for; and a plugin that fails
\* costs the others nothing: the tools of the server and of every plugin loaded
\* are served, but for those the filter or the sign profile takes.
SurfaceIsAsConfigured ==
  Answers("assemble") =>
    LET in == call.in
        given == UNION {p.tools : p \in ToSet(in.plugins)}
        pruned == in.profile /\ \E p \in call.out.loaded : p.sign
    IN /\ \A t \in call.out.tools : Kept(in, t) /\ t \in BuiltinTools \cup given
       /\ call.out.loaded \cup call.out.failed = ToSet(in.plugins)
       /\ \A t \in BuiltinTools \cup UNION {p.tools : p \in call.out.loaded} :
            Kept(in, t) => t \in call.out.tools \/ (pruned /\ t \notin SignTools)

\* The wizard replaces a config only after a connection that worked or on the
\* user's word, never once it was cancelled, and its exit code says which.
SetupKeepsConfig ==
  Answers("setup") =>
    /\ call.out.exit = 0 <=> call.out.after = "written"
    /\ call.out.exit = 0 => (call.in.connects \/ call.in.insists) /\ call.in.cancelled = 0
=============================================================================
