--------------------------- MODULE ConfigGenerator ---------------------------
(***************************************************************************)
(* The wizard that writes the configuration file, docker-compose.yml and   *)
(* .env of an inference broker (integration/config/main.go), run several   *)
(* times in one directory by an operator who may give up or mistype, and   *)
(* the deployment of what is there then.  A value is a member of a small   *)
(* set of strings that stand for what the code tells apart.                *)
(***************************************************************************)
EXTENDS Deployment, Sequences, SequencesExt

CONSTANTS
  Base,         \* what config.yml says
  UserFiles,    \* configuration files an operator may have
  Answers,      \* what is typed for a required field
  PortAnswers,  \* what is typed for a port, 0 for nothing
  ConfigNames,  \* paths for the configuration: a directory and a file name
  MountPaths,   \* directories that are typed as the mount path
  Projects,     \* names for the compose project, "" for none
  MaxRuns,      \* bound: runs of the wizard
  None

VARIABLES
  pc,       \* where the wizard is
  runs,     \* runs begun
  config,   \* the configuration of this run
  todo,     \* required fields still to be looked at
  name,     \* the path of this run's configuration
  mount,    \* the path that is mounted as the configuration
  options,  \* the deployment options of this run
  project,  \* the compose project of this run
  ports,    \* the ports of this run
  files,    \* the directory: what each path holds
  dotenv    \* the directory: the project that .env names, or None

wizard == << pc, runs, config, todo, name, mount, options, project, ports >>
vars   == << wizard, files, dotenv, container >>

------------------------------------------------------------------------------
(* Values.                                                                 *)

Prices   == {"inputPrice", "outputPrice"}
URLs     == {"servingUrl", "targetUrl"}
Optional == {"contractAddress", "gasPrice", "maxGasPrice", "chatCacheExpiration", "secret"}
Texts    == URLs \cup Prices \cup {"model"} \cup Optional
(* "7" is a number and a key, "20m" a duration, "abc" none of these.       *)
Value    == {"", "<x>", "YOUR_X", "abc", "7", "'7'", "20m", "http://h", "http://h:8080"}
Network  == [url : Value, keys : Seq(Value)]
Networks == {"ethereum0g", "ethereumHardhat"}
OrNone(S) == S \cup {None}

(* monitor: Monitor.Enable, which a user's file always sets.               *)
Config == [text : [Texts -> Value], networks : [Networks -> OrNone(Network)], monitor : BOOLEAN]

ComposeFile == << "", "docker-compose.yml" >>
BaseOf(n)   == n[2]

(* An operator does not give the configuration the name of the compose     *)
(* file, which the wizard would overwrite it with; and None is not         *)
(* something there is.                                                     *)
ASSUME ConfigAssumption ==
  /\ Base \in Config /\ UserFiles \subseteq Config /\ Answers \subseteq Value
  /\ PortAnswers \subseteq Int /\ MaxRuns \in Nat
  /\ ComposeFile \notin ConfigNames
  /\ None \notin Config \cup Network \cup ConfigNames

isPlaceholder(v) == v \in {"<x>", "YOUR_X"}
isValidURL(v)    == v \in {"http://h", "http://h:8080"}

(* extractPortFromURL, with the fallback of promptPortConfiguration.       *)
ServingPort(v) == CASE v = "http://h" -> 80 [] v = "http://h:8080" -> 8080 [] OTHER -> 3080

(* A price that is quoted in the file becomes a number.                    *)
normalizePriceFields(c) ==
  [c EXCEPT !.text = [f \in Texts |-> IF f \in Prices /\ @[f] = "'7'" THEN "7" ELSE @[f]]]

(* A network of the user's file takes the place of the base file's as a    *)
(* whole.                                                                  *)
Merge(base, user) ==
  [text     |-> [f \in Texts |-> IF user.text[f] # "" THEN user.text[f] ELSE base.text[f]],
   networks |-> [n \in Networks |-> IF user.networks[n] # None THEN user.networks[n] ELSE base.networks[n]],
   monitor  |-> user.monitor]

mergeConfigs(base, user) == Merge(base, normalizePriceFields(user))

FirstKey(n) == IF n = None \/ n.keys = << >> THEN "" ELSE n.keys[1]

SetFirstKey(n, v) ==
  IF n = None THEN [url |-> "", keys |-> << v >>]
  ELSE [n EXCEPT !.keys = << v >> \o (IF @ = << >> THEN @ ELSE Tail(@))]

(* The wizard asks for one key, that of ethereum0g.                        *)
getFieldValue(c, f) == IF f = "privateKey" THEN FirstKey(c.networks["ethereum0g"]) ELSE c.text[f]

setFieldValue(c, f, v) ==
  IF f = "privateKey" THEN [c EXCEPT !.networks["ethereum0g"] = SetFirstKey(@, v)]
  ELSE [c EXCEPT !.text[f] = v]

WithoutPlaceholders(keys) ==
  LET kept[i \in 0 .. Len(keys)] ==
        IF i = 0 THEN << >>
        ELSE IF isPlaceholder(keys[i]) THEN kept[i - 1] ELSE Append(kept[i - 1], keys[i])
  IN kept[Len(keys)]

(* A network without keys and without a URL goes as a whole.               *)
CleanNetwork(n) ==
  IF n = None \/ (WithoutPlaceholders(n.keys) = << >> /\ n.url = "") THEN None
  ELSE [n EXCEPT !.keys = WithoutPlaceholders(@)]

(* Mutant: the keys are left as they are.                                  *)
cleanupTexts(c) ==
  [c EXCEPT !.text = [f \in Texts |-> IF f \in Optional /\ isPlaceholder(@[f]) THEN "" ELSE @[f]]]

(* Placeholders of optional fields go, and placeholder keys, the required  *)
(* one among them.                                                         *)
cleanupPlaceholderFields(c) ==
  [text     |-> [f \in Texts |-> IF f \in Optional /\ isPlaceholder(c.text[f]) THEN "" ELSE c.text[f]],
   networks |-> [n \in Networks |-> CleanNetwork(c.networks[n])],
   monitor  |-> c.monitor]

(* What the two processes can start with: prices that are numbers, a       *)
(* duration, and a network of the name they look for, with keys that are   *)
(* keys.  It is assumed that the node behind the URL and the contract on   *)
(* it are there.                                                           *)
Loadable(c, network) ==
  /\ c # None
  /\ \A f \in Prices : c.text[f] = "7"
  /\ c.text["gasPrice"] \in {"", "7"} /\ c.text["maxGasPrice"] \in {"", "7"}
  /\ c.text["chatCacheExpiration"] \in {"", "20m"}
  /\ LET n == c.networks[network] IN
       /\ n # None
       /\ isValidURL(n.url) /\ n.keys # << >>
       /\ \A i \in DOMAIN n.keys : n.keys[i] = "7"

------------------------------------------------------------------------------
(* The directory.  os.Create truncates what was there.                     *)

Paths  == ConfigNames \cup {ComposeFile}
Mounts == MountPaths \X {BaseOf(n) : n \in ConfigNames}

Init ==
  /\ pc = "ended" /\ runs = 0
  /\ config = None /\ todo = << >> /\ name = None /\ mount = None
  /\ options = None /\ project = None /\ ports = None
  /\ files = [p \in Paths |-> None] /\ dotenv = None
  /\ container = [s \in AllServices |-> "absent"]

------------------------------------------------------------------------------
(* The wizard.                                                             *)

(* A run that ends leaves nothing but the files; the paths are kept as the *)
(* history of the last run that ended well.                                *)
Exit(how) ==
  /\ pc' = how
  /\ config' = None /\ todo' = << >>
  /\ name' = IF how = "done" THEN name ELSE None
  /\ mount' = IF how = "done" THEN mount ELSE None
  /\ options' = None /\ project' = None /\ ports' = None
  /\ UNCHANGED runs

(* The end of the input, an invalid answer or a file that cannot be        *)
(* written ends the run where it is.                                       *)
Abort == pc \notin {"ended", "done", "up"} /\ Exit("ended") /\ UNCHANGED << files, dotenv, container >>

promptOutputDirectory ==
  /\ pc \in {"ended", "done"} /\ runs < MaxRuns
  /\ pc' = "yaml" /\ runs' = runs + 1
  /\ UNCHANGED << config, todo, name, mount, options, project, ports, files, dotenv, container >>

Required == << "servingUrl", "targetUrl", "inputPrice", "outputPrice", "model", "privateKey" >>

(* generateYAMLConfig up to its prompts for fields.  The file is mounted   *)
(* from the mount path under its base name.  A user's file that is not     *)
(* there leaves the base configuration.                                    *)
loadAndMergeConfigs ==
  /\ pc = "yaml"
  /\ \E n \in ConfigNames, d \in MountPaths : name' = n /\ mount' = << d, BaseOf(n) >>
  /\ \/ config' = normalizePriceFields(Base)
     \/ \E user \in UserFiles : config' = mergeConfigs(normalizePriceFields(Base), user)
  /\ pc' = "fields" /\ todo' = Required
  /\ UNCHANGED << runs, options, project, ports, files, dotenv, container >>

(* A text like YOUR_X is a value.                                          *)
needsInput(v) == v \in {"", "<x>"}

validAnswer(f, v) == v # "" /\ (f \in URLs => isValidURL(v))

(* An answer that is empty or not valid is asked for again.                *)
checkAndPromptRequiredFields ==
  /\ pc = "fields" /\ todo # << >>
  /\ todo' = Tail(todo)
  /\ LET f == Head(todo) IN
       IF needsInput(getFieldValue(config, f))
       THEN \E v \in Answers : validAnswer(f, v) /\ config' = setFieldValue(config, f, v)
       ELSE UNCHANGED config
  /\ UNCHANGED << pc, runs, name, mount, options, project, ports, files, dotenv, container >>

saveConfig ==
  /\ pc = "fields" /\ todo = << >>
  /\ config' = cleanupPlaceholderFields(config)
  /\ files' = [files EXCEPT ![name] = config']
  /\ pc' = "environment"
  /\ UNCHANGED << runs, todo, name, mount, options, project, ports, dotenv, container >>

promptEnvironmentConfig ==
  /\ pc = "environment"
  /\ project' \in Projects /\ options' \in Options
  /\ pc' = "ports"
  /\ UNCHANGED << runs, config, todo, name, mount, ports, files, dotenv, container >>

DefaultPort(s) ==
  CASE s = "mysql" -> 33060 [] s = "hardhat" -> 8545 [] s = "prometheus" -> 9090
    [] s = "grafana" -> 3003 [] s = "broker" -> 80

(* Mutant: a port has a lower bound only.                                  *)
validatePositive(p) == p >= 1

Port            == 1 .. 65535
validatePort(p) == p \in Port

(* Nothing is asked for the proxy: it has the port of the serving URL.     *)
promptPortConfiguration ==
  /\ pc = "ports"
  /\ \E typed \in [Publishers(options) \ {"nginx"} -> PortAnswers] :
       /\ \A s \in DOMAIN typed : typed[s] = 0 \/ validatePort(typed[s])
       /\ ports' = [s \in Publishers(options) |->
            IF s = "nginx" THEN ServingPort(config.text["servingUrl"])
            ELSE IF typed[s] = 0 THEN DefaultPort(s) ELSE typed[s]]
  /\ pc' = "compose"
  /\ UNCHANGED << runs, config, todo, name, mount, options, project, files, dotenv, container >>

(* Mutant: a compose file that is there already is kept.                   *)
generateDockerComposeOnce ==
  /\ pc = "compose"
  /\ files' = [files EXCEPT ![ComposeFile] =
                 IF @ = None THEN Compose(options, ports, mount, project) ELSE @]
  /\ pc' = "env"
  /\ UNCHANGED << runs, config, todo, name, mount, options, project, ports, dotenv, container >>

generateDockerCompose ==
  /\ pc = "compose"
  /\ files' = [files EXCEPT ![ComposeFile] = Compose(options, ports, mount, project)]
  /\ pc' = "env"
  /\ UNCHANGED << runs, config, todo, name, mount, options, project, ports, dotenv, container >>

generateEnvFile ==
  /\ pc = "env"
  /\ dotenv' = IF project # "" THEN project ELSE dotenv
  /\ Exit("done")
  /\ UNCHANGED << files, container >>

------------------------------------------------------------------------------
(* The deployment of what is in the directory.                             *)

Written  == files[ComposeFile]
Deployed == IF Written = None THEN {} ELSE Services(Written.options)
Mounted  == IF Written.mount \in DOMAIN files THEN files[Written.mount] ELSE None

(* Any time no run is under way, also after one that was given up.         *)
ComposeUp == pc \in {"ended", "done"} /\ Written # None /\ pc' = "up" /\ Up(Written)
             /\ UNCHANGED << runs, config, todo, name, mount, options, project, ports, files, dotenv >>

Docker(s) == /\ pc = "up"
             /\ \/ StartContainer(s, Written)
                \/ BecomeHealthy(s, Loadable(Mounted, NETWORK(Written.options)))
             /\ UNCHANGED << wizard, files, dotenv >>

Next ==
  \/ promptOutputDirectory \/ loadAndMergeConfigs \/ checkAndPromptRequiredFields \/ saveConfig
  \/ promptEnvironmentConfig \/ promptPortConfiguration \/ generateDockerCompose
  \/ generateEnvFile \/ Abort \/ ComposeUp \/ \E s \in AllServices : Docker(s)

Spec == Init /\ [][Next]_vars

(* Docker goes on with what it was told to start.                          *)
FairSpec == Spec /\ \A s \in AllServices : WF_vars(Docker(s))

------------------------------------------------------------------------------
(* Properties.                                                             *)

TypeOK ==
  /\ pc \in {"ended", "yaml", "fields", "environment", "ports", "compose", "env", "done", "up"}
  /\ runs \in 0 .. MaxRuns
  /\ config \in OrNone(Config)
  /\ IsSuffix(todo, Required)
  /\ name \in OrNone(ConfigNames) /\ mount \in OrNone(Mounts)
  /\ options \in OrNone(Options) /\ project \in OrNone(Projects)
  /\ ports # None => ports \in [Publishers(options) -> Port]
  /\ \A n \in ConfigNames : files[n] \in OrNone(Config)
  /\ dotenv \in OrNone(Projects \ {""})
  /\ container \in [AllServices -> {"absent", "created", "running", "healthy"}]

(* No required text of a saved configuration is missing or the base file's *)
(* <...>, unless the operator typed such a text, which no URL may be: that *)
(* is what main.go:1188 asks for.  It takes a text like YOUR_... for a     *)
(* value.  No optional text and no key of any network is a placeholder of  *)
(* either kind, and a network with neither a key nor a URL is not saved    *)
(* (main.go:1358); so the key the wizard asked for may be missing (see     *)
(* RequiredIsConfigured).                                                  *)
SavedIsFilledIn ==
  \A c \in {files[n] : n \in ConfigNames} \ {None} :
    /\ \A f \in Texts \ Optional :
         c.text[f] # "" /\ (c.text[f] = "<x>" => "<x>" \in Answers /\ f \notin URLs)
    /\ \A f \in Optional : ~ isPlaceholder(c.text[f])
    /\ \A w \in Range(c.networks) \ {None} :
         /\ \A i \in DOMAIN w.keys : ~ isPlaceholder(w.keys[i])
         /\ w.url # "" \/ w.keys # << >>

(* "All required fields are already configured" or "have been configured"  *)
(* (main.go:1254, 1257): the file that is saved next has a value for each. *)
RequiredIsConfigured ==
  pc = "environment" => \A i \in DOMAIN Required : ~ needsInput(getFieldValue(files[name], Required[i]))

(* When a run has ended well, the compose file mounts the configuration    *)
(* that run saved, if the mount path is where it was saved, and a proxy    *)
(* listens where that configuration says the broker is served: two files   *)
(* of which an earlier run, or one that was given up, may have left        *)
(* another version.                                                        *)
FilesAgree ==
  pc = "done" /\ mount = name =>
    /\ Written.mount = name /\ Mounted # None
    /\ Written.options.nginx =>
         Written.ports["nginx"] = ServingPort(Mounted.text["servingUrl"])

(* A deployment whose ports differ, and whose configuration the broker can *)
(* start with, comes up as a whole: nobody waits for a service that waits  *)
(* for him, nor for one that is not in the file.  With the test option     *)
(* that takes a network ethereumHardhat in the operator's own file: the    *)
(* base file has none, and the wizard asks for none.                       *)
EverythingStarts ==
  (/\ pc = "up" /\ Loadable(Mounted, NETWORK(Written.options))
   /\ \A s, t \in DOMAIN Written.ports : s # t => Written.ports[s] # Written.ports[t])
    ~> \A s \in Deployed : container[s] = "healthy"
==============================================================================
