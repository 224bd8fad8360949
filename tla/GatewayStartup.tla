----------------------------- MODULE GatewayStartup -----------------------------
(***************************************************************************)
(* How the gateway comes up (bin/rust_gateway.rs): the environment and the *)
(* two .env files, the four configurations read from it (config.rs), the   *)
(* registry of providers, and the lists of browser origins (config.rs,     *)
(* app.rs).                                                                *)
(*                                                                         *)
(* Abstractions.  The value of a variable is the class that its readers    *)
(* tell apart, and the place it was set in.  An origin is a record; its    *)
(* tail is what follows the port.                                          *)
(***************************************************************************)
EXTENDS Naturals, Sequences, FiniteSets, SequencesExt

CONSTANT Environments   \* those the gateway may be started in, each under a name

ASSUME OriginsAssumption == \A e \in DOMAIN Environments :
    LET extras == Environments[e].origins.extras IN extras \in Seq(ToSet(extras))

VARIABLES
    boot,       \* the process: how far it is, in which environment, with which origins
    clients     \* the services OpenConnector has an OAuth client for

suVars == <<boot, clients>>

------------------------------------------------------------------------------
(* The environment *)

Text == {"blank", "word", "control", "port", "true", "false", "sqlite", "key"}
Raw == Text \union {"unset", "binary"}      \* "binary" is not UTF-8

(* What each of the four reads, and how *)
GatewayConfig ==
    [GATEWAY_HOST |-> "required", GATEWAY_PORT |-> "port",
     GATEWAY_BACKEND_HOST |-> "required", GATEWAY_BACKEND_PORT |-> "port",
     FRONTEND_ORIGIN |-> "required", WORKSPACE_DEFAULT_PATH |-> "required",
     WORKSPACE_GATEWAY_URL |-> "required", CORS_ENABLED |-> "bool",
     EXTRA_WRAPPER_ALLOWED_ORIGINS |-> "list"]
WorkspacesConfig ==
    [DATABASE_URL |-> "sqlite", WORKSPACE_IMAGE_TAG |-> "required",
     WORKSPACE_MEMORY_LIMIT |-> "default", WORKSPACE_SHM_SIZE |-> "default",
     WORKSPACE_BROWSER_IDLE_TIMEOUT_MINUTES |-> "default"]
IntegrationsConfig ==
    [OPENCONNECTOR_URL |-> "required", OPENCONNECTOR_ADMIN_TOKEN |-> "required",
     INTEGRATIONS_PROVIDERS_PATH |-> "required", GATEWAY_TOKEN_ENCRYPTION_KEY |-> "key"]
GatewayAuthConfig ==
    [GATEWAY_COOKIE_SECURE |-> "bool",
     GOOGLE_CLIENT_ID |-> "required", GOOGLE_CLIENT_SECRET |-> "required",
     GOOGLE_REDIRECT_URI |-> "required", GOOGLE_AUTHORIZE_URL |-> "required",
     GOOGLE_TOKEN_URL |-> "required", GOOGLE_USERINFO_URL |-> "required"]

Variables == [gateway |-> GatewayConfig, workspaces |-> WorkspacesConfig,
              integrations |-> IntegrationsConfig, auth |-> GatewayAuthConfig]
Configs == DOMAIN Variables
Keys == UNION {DOMAIN Variables[c] : c \in Configs}
Rule == [key \in Keys |->
    LET c == CHOOSE c \in Configs : key \in DOMAIN Variables[c] IN Variables[c][key]]

Value(from, raw) == [from |-> from, raw |-> raw]
Default == Value("default", "unset")

(* dotenvy's from_filename keeps whatever can be read already.             *)
FromFilename(env, layer, file) ==
    [k \in Keys |-> IF env[k].raw \in Text \/ file[k] = "unset" THEN env[k]
                    ELSE Value(layer, file[k])]

(* What from_filename_override would do *)
LastFileWins(e) ==
    LET started == [k \in Keys |-> Value("process", e.process[k])]
        Over(env, layer, file) ==
            [k \in Keys |-> IF file[k] = "unset" THEN env[k] ELSE Value(layer, file[k])]
    IN  Over(Over(started, "shared", e.shared), "local", e.local)

(* load_dotenv_files: .env.shared, then the service's own .env, into the   *)
(* environment the process was started with                                *)
LoadDotenvFiles(e) ==
    LET started == [k \in Keys |-> Value("process", e.process[k])]
    IN  FromFilename(FromFilename(started, "shared", e.shared), "local", e.local)

------------------------------------------------------------------------------
(* Reading a variable: required_env, parse_port, parse_bool_env,           *)
(* optional_env_or, parse_encryption_key and their like.  "default" takes  *)
(* any text but a blank one.                                               *)

Readable == [required |-> Text, port |-> {"port"}, sqlite |-> {"sqlite"}, key |-> {"key"},
             bool |-> {"true", "false"}, default |-> Text \ {"blank"}, list |-> Text]
Optional == {"bool", "default", "list"}

(* Whatever cannot be read counts as unset: std::env::var(key).ok().       *)
Lenient(rule, value) ==
    value.raw \in {"unset", "binary"} /\ rule \in Optional

(* A value that is not Unicode is no reason for a default, but in a list.  *)
TakesDefault(rule, value) ==
    \/ value.raw = "unset" /\ rule \in Optional
    \/ value.raw = "binary" /\ rule = "list"

Legible(rule, value) == value.raw \in Readable[rule] \/ TakesDefault(rule, value)
Understood(rule, value) == IF TakesDefault(rule, value) THEN Default ELSE value

------------------------------------------------------------------------------
(* The registry of providers *)

(* A registry that was not read or parsed is no sequence of providers.     *)
ValidRegistry(registry) ==
    /\ registry.parsed
    /\ \A i \in DOMAIN registry.entries : LET p == registry.entries[i] IN
        /\ p.id # "" /\ p.service # ""
        /\ \A j \in 1..(i - 1) : registry.entries[j].id # p.id

(* Both halves of an OAuth client, or none *)
OAuthCredentials(p) == p.client_id \in Text \ {"blank"} /\ p.client_secret \in Text \ {"blank"}

------------------------------------------------------------------------------
(* Origins *)

(* The same address spelled the other way, if it is exactly one of the two *)
Sibling(o) ==
    IF o.tail # "" \/ o.scheme = "" THEN {}
    ELSE CASE o.host = "localhost" -> {[o EXCEPT !.host = "127.0.0.1"]}
           [] o.host = "127.0.0.1" -> {[o EXCEPT !.host = "localhost"]}
           [] OTHER -> {}

Own(o) == [scheme |-> "http", host |-> o.host, port |-> o.port, tail |-> ""]

BrowserAllowedOrigins(frontend) == {frontend} \union Sibling(frontend)

(* Entries without a scheme are skipped. *)
ParseExtra(extras) ==
    FoldLeft(LAMBDA list, o : IF o.scheme = "" THEN list ELSE Append(list, o), <<>>, extras)

(* Extras are compared with the frontend's origin alone.                   *)
WrapperOriginsRepeating(frontend, own, extras) ==
    <<frontend>> \o SelectSeq(<<own>> \o extras, LAMBDA o : o # frontend)

(* The frontend's, the gateway's own and the extra ones, each once         *)
WrapperAllowedOrigins(frontend, own, extras) ==
    FoldLeft(LAMBDA list, o : IF o \in ToSet(list) THEN list ELSE Append(list, o),
             <<frontend>>, <<own>> \o extras)

------------------------------------------------------------------------------
(* The process *)

Stages == <<"off", "gateway", "workspaces", "database", "integrations", "providers",
            "oauth", "auth", "watch", "route", "bind", "listening">>
Ends == {"exited", "panicked", "listening"}

Off == [at |-> "off", given |-> <<>>, browsers |-> {}, wrapper |-> <<>>]
InitBoot == clients = {} /\ boot = Off

Reached(stage) == boot.at = stage
After(stage) == Stages[1 + SelectInSeq(Stages, LAMBDA s : s = stage)]
Advance == boot' = [boot EXCEPT !.at = After(@)]
End(how) == boot' = [boot EXCEPT !.at = how]

(* What it was started in, what load_dotenv_files makes of that, and what  *)
(* is taken from it                                                        *)
Given == Environments[boot.given]
Conf == LET env == LoadDotenvFiles(Given) IN [k \in Keys |-> Understood(Rule[k], env[k])]

StartProcess(e) ==
    /\ Reached("off")
    /\ boot' = [boot EXCEPT !.at = After(@), !.given = e]
    /\ UNCHANGED clients

(* from_env of one of the four: every variable is legible, or the process  *)
(* exits.                                                                  *)
FromEnv(config) ==
    LET env == LoadDotenvFiles(Given)
        rules == Variables[config]
    IN
    /\ Reached(config)
    /\ IF \A k \in DOMAIN rules : Legible(rules[k], env[k]) THEN Advance ELSE End("exited")
    /\ UNCHANGED clients

(* The database's directory, its file, the pool and the migrations         *)
Connect == Reached("database") /\ (Advance \/ End("exited")) /\ UNCHANGED clients

LoadProviders ==
    /\ Reached("providers")
    /\ IF ValidRegistry(Given.registry) THEN Advance ELSE End("exited")
    /\ UNCHANGED clients

(* Every client there are credentials for is registered, or was not to be  *)
(* reached; the gateway goes on without it.                                *)
RegisterClients ==
    LET entries == ToSet(Given.registry.entries) IN
    /\ Reached("oauth")
    /\ \E some \in SUBSET {p.service : p \in {p \in entries : OAuthCredentials(p)}} :
          clients' = clients \union some
    /\ Advance

(* The launcher, with the origins that containers get to know; the watcher *)
(* runs from now on.                                                       *)
Launcher ==
    LET o == Given.origins IN
    /\ Reached("watch")
    /\ boot' = [boot EXCEPT !.at = After(@),
          !.wrapper = WrapperAllowedOrigins(o.frontend, Own(o),
                IF Conf["EXTRA_WRAPPER_ALLOWED_ORIGINS"] = Default THEN <<>>
                ELSE ParseExtra(o.extras))]
    /\ UNCHANGED clients

(* build_router looks at the origin with CORS disabled, too.               *)
Route ==
    /\ Reached("route")
    /\ IF Conf["FRONTEND_ORIGIN"].raw = "control" THEN End("panicked")
       ELSE boot' = [boot EXCEPT !.at = After(@),
                !.browsers = IF Conf["CORS_ENABLED"].raw = "false" THEN {}
                             ELSE BrowserAllowedOrigins(Given.origins.frontend)]
    /\ UNCHANGED clients

Bind == Reached("bind") /\ (Advance \/ End("panicked")) /\ UNCHANGED clients

(* The process has ended, or is stopped, to be started again in whatever   *)
(* environment there is by then.                                           *)
EndProcess == boot.at \in Ends /\ boot' = Off /\ UNCHANGED clients

BootNext ==
    \/ \E e \in DOMAIN Environments : StartProcess(e)
    \/ \E config \in Configs : FromEnv(config)
    \/ Connect \/ LoadProviders \/ RegisterClients
    \/ Launcher \/ Route \/ Bind
    \/ EndProcess

BootSpec == InitBoot /\ [][BootNext]_suVars

------------------------------------------------------------------------------
(* Properties *)

BootTypeOK ==
    /\ boot.at \in ToSet(Stages) \union Ends
    /\ Reached("off") \/ boot.given \in DOMAIN Environments
    /\ \A s \in clients : s # ""

(* A gateway that listens has, for every variable, a value its readers can *)
(* use, the one it was started with if that is legible; and a default only *)
(* where nothing at all was set, lists aside: nothing that somebody set is *)
(* replaced in silence (config.rs:158-161, 253-281, 449-501).              *)
ListensConfigured ==
    Reached("listening") => LET conf == Conf IN \A k \in Keys :
        LET value == conf[k]
            rule == Rule[k]
        IN
        /\ value # Default => value.raw \in Readable[rule]
        /\ Given.process[k] \in Text => value = Value("process", Given.process[k])
        /\ value = Default /\ rule # "list" =>
            /\ rule \in Optional
            /\ {Given[layer][k] : layer \in {"process", "shared", "local"}} = {"unset"}

(* The origins that containers are told of are the frontend's, the         *)
(* gateway's own and the extra ones that have a scheme, each of them once, *)
(* whichever of them coincide (config.rs:198-238).                         *)
OriginsListedOnce ==
    Reached("listening") =>
        LET o == Given.origins
            extras == IF Conf["EXTRA_WRAPPER_ALLOWED_ORIGINS"] = Default THEN {}
                      ELSE {x \in ToSet(o.extras) : x.scheme # ""}
        IN
        /\ ToSet(boot.wrapper) = {o.frontend, Own(o)} \union extras
        /\ Len(boot.wrapper) = Cardinality(ToSet(boot.wrapper))
==============================================================================
