------------------------------- MODULE Platform -------------------------------
(***************************************************************************)
(* The start of a worker process and its services: the checks and steps of *)
(* app/main.py and app/core, and the lazily built singletons of            *)
(* app/api/dependencies.py.  FastAPI runs the providers of a request in a  *)
(* thread of a pool, so two requests may find the same service missing.    *)
(* Workers share the database and nothing else.                            *)
(***************************************************************************)
EXTENDS Naturals, Sequences, FiniteSets

CONSTANTS Workers, Threads,
          Services,    \* the singletons
          BoundOnes,   \* the administration and what it is bound to, in order
          Needs,       \* [service -> the service it is built with, or itself]
          SeedFiles,
          Environments, \* the configurations to start with
          Nobody, MaxInstances, WorkerCrashes \* bounds

\* What the environment may say: of the provider only what the code tells
\* apart, its name as the check and as the factory read it.
ProviderNames == {"mock", "real", "other"}
Configs == [production : BOOLEAN, provider : ProviderNames, key : BOOLEAN, demo : BOOLEAN,
            secret : {"none", "short", "long"}, seed : BOOLEAN]

ASSUME PlatformAssumption ==
  /\ Environments \subseteq Configs
  /\ BoundOnes \in Seq(Services)
  /\ \A i, j \in DOMAIN BoundOnes : BoundOnes[i] = BoundOnes[j] => i = j
  /\ Needs \in [Services -> Services]
  /\ Nobody \notin Nat /\ MaxInstances \in Nat /\ WorkerCrashes \in Nat
  /\ \A s \in Services : Needs[Needs[s]] = Needs[s]

Steps == {"down", "refused", "starting", "seeding", "serving"}

VARIABLES config,
          provider,   \* LLM_PROVIDER as each worker goes on with it
          step, todo, \* how far each worker is; what it still has to seed
          instance,   \* the singletons of each worker
          boundTo,    \* the instances that its administration is bound to
          asking,     \* what each thread asks for, innermost last
          held,       \* the service and instance that a thread's request has
          corpus,     \* how often each seed file is registered
          madeSoFar, workerCrashes

platformVars == <<config, provider, step, todo, instance, boundTo, asking, held, corpus,
                  madeSoFar, workerCrashes>>

NoServices == [s \in Services |-> Nobody]

PlatformInit ==
  /\ config \in Environments
  /\ provider = [w \in Workers |-> config.provider]
  /\ step = [w \in Workers |-> "down"] /\ todo = [w \in Workers |-> {}]
  /\ instance = [w \in Workers |-> NoServices] /\ boundTo = [w \in Workers |-> NoServices]
  /\ asking = [w \in Workers |-> [t \in Threads |-> <<>>]]
  /\ held = [w \in Workers |-> [t \in Threads |-> <<>>]]
  /\ corpus = [f \in SeedFiles |-> 0] /\ madeSoFar = 0 /\ workerCrashes = 0

-----------------------------------------------------------------------------
(* Starting: the issuer when app.main is imported, then on_startup *)

\* The secrets manager looks in the environment, a file and the vault;
\* outside production a secret is generated.
SecretFits == config.production => config.secret = "long"

MockRefused == config.production /\ config.provider = "mock" /\ ~config.demo
KeyMissing  == config.production /\ config.provider # "mock" /\ ~config.key

Boot(w) ==
  /\ step[w] = "down"
  /\ IF ~SecretFits \/ MockRefused \/ (KeyMissing /\ ~config.demo)
     THEN step' = [step EXCEPT ![w] = "refused"] /\ UNCHANGED provider
     ELSE /\ step' = [step EXCEPT ![w] = "starting"]
          /\ provider' = [provider EXCEPT ![w] = IF KeyMissing THEN "mock" ELSE config.provider]
  /\ UNCHANGED <<config, todo, instance, boundTo, asking, held, corpus, madeSoFar, workerCrashes>>

\* Mutant of StartupServices: the administration is bound to instances of
\* its own, the singletons are left to the first request.
StartupServicesOwn(n) == {}

StartupServices(n) == {BoundOnes[k] : k \in 1..n}

\* bind_cross_module_services builds them before any request is served.  If
\* one cannot be built, the error is dropped: those before it stay, the
\* administration is bound to nothing, and the start goes on.
BindCrossModuleServices(w) ==
  LET number(s) == CHOOSE k \in DOMAIN BoundOnes : BoundOnes[k] = s
      made(services) ==
        [s \in Services |-> IF s \in services THEN madeSoFar + number(s) ELSE Nobody]
  IN  /\ step[w] = "starting" /\ madeSoFar + Len(BoundOnes) <= MaxInstances
      /\ \E n \in 0..Len(BoundOnes) :
           /\ instance' = [instance EXCEPT ![w] = made(StartupServices(n))]
           /\ boundTo' = [boundTo EXCEPT ![w] =
                IF n = Len(BoundOnes) THEN made({BoundOnes[k] : k \in 1..n}) ELSE NoServices]
           /\ madeSoFar' = madeSoFar + n
      /\ step' = [step EXCEPT ![w] = "seeding"]
      \* seed_demo_corpus counts the documents once, when it starts
      /\ todo' = [todo EXCEPT ![w] =
           IF config.seed /\ \A f \in SeedFiles : corpus[f] = 0 THEN SeedFiles ELSE {}]
      /\ UNCHANGED <<config, provider, asking, held, corpus, workerCrashes>>

\* register_document and the unique checksum: a second one is refused, and
\* the seed logs it and goes on.
Register(f) == corpus' = [corpus EXCEPT ![f] = IF @ = 0 THEN 1 ELSE @]

SeedDemoFile(w) ==
  /\ step[w] = "seeding"
  /\ \E f \in todo[w] :
       /\ todo' = [todo EXCEPT ![w] = @ \ {f}]
       /\ Register(f) \/ UNCHANGED corpus \* a file that cannot be stored is skipped
  /\ UNCHANGED <<config, provider, step, instance, boundTo, asking, held, madeSoFar, workerCrashes>>

Serve(w) ==
  /\ step[w] = "seeding" /\ todo[w] = {}
  /\ step' = [step EXCEPT ![w] = "serving"]
  /\ UNCHANGED <<config, provider, todo, instance, boundTo, asking, held, corpus, madeSoFar,
                 workerCrashes>>

-----------------------------------------------------------------------------
(* Lazy singletons: looked for, built and published without a lock *)

\* A service that is built with another asks for that one first.
AskService(w, t) ==
  /\ step[w] = "serving" /\ asking[w][t] = <<>>
  /\ \E s \in Services :
       IF instance[w][s] # Nobody
       THEN held' = [held EXCEPT ![w][t] = <<s, instance[w][s]>>] /\ UNCHANGED asking
       ELSE /\ held' = [held EXCEPT ![w][t] = <<>>]
            /\ asking' = [asking EXCEPT ![w][t] =
                 IF Needs[s] # s /\ instance[w][Needs[s]] = Nobody
                 THEN <<s, Needs[s]>> ELSE <<s>>]
  /\ UNCHANGED <<config, provider, step, todo, instance, boundTo, corpus, madeSoFar, workerCrashes>>

\* The provider returns the global, whoever wrote it last.
BuildService(w, t) ==
  LET stack == asking[w][t]
      s     == stack[Len(stack)]
      new   == madeSoFar + 1
      rest  == SubSeq(stack, 1, Len(stack) - 1)
  IN  /\ stack # <<>> /\ madeSoFar < MaxInstances /\ madeSoFar' = new
      /\ instance' = [instance EXCEPT ![w][s] = new]
      /\ asking' = [asking EXCEPT ![w][t] = rest]
      /\ held' = IF rest = <<>> THEN [held EXCEPT ![w][t] = <<s, new>>] ELSE held
      /\ UNCHANGED <<config, provider, step, todo, boundTo, corpus, workerCrashes>>

\* A service that cannot be built leaves its global unset; the request fails.
BuildRaises(w, t) ==
  /\ asking[w][t] # <<>> /\ asking' = [asking EXCEPT ![w][t] = <<>>]
  /\ UNCHANGED <<config, provider, step, todo, instance, boundTo, held, corpus, madeSoFar,
                 workerCrashes>>

\* The memory of the worker is gone; the next start begins anew.
WorkerCrash(w) ==
  /\ workerCrashes < WorkerCrashes /\ workerCrashes' = workerCrashes + 1
  /\ step[w] \notin {"down", "refused"}
  /\ step' = [step EXCEPT ![w] = "down"] /\ todo' = [todo EXCEPT ![w] = {}]
  /\ provider' = [provider EXCEPT ![w] = config.provider]
  /\ instance' = [instance EXCEPT ![w] = NoServices] /\ boundTo' = [boundTo EXCEPT ![w] = NoServices]
  /\ asking' = [asking EXCEPT ![w] = [t \in Threads |-> <<>>]]
  /\ held' = [held EXCEPT ![w] = [t \in Threads |-> <<>>]]
  /\ UNCHANGED <<config, corpus, madeSoFar>>

PlatformNext ==
  \E w \in Workers :
    \/ Boot(w) \/ BindCrossModuleServices(w) \/ SeedDemoFile(w) \/ Serve(w) \/ WorkerCrash(w)
    \/ \E t \in Threads : AskService(w, t) \/ BuildService(w, t) \/ BuildRaises(w, t)

PlatformSpec == PlatformInit /\ [][PlatformNext]_platformVars

-----------------------------------------------------------------------------
(* Properties *)

PlatformTypeOK ==
  /\ config \in Configs /\ provider \in [Workers -> ProviderNames]
  /\ step \in [Workers -> Steps] /\ todo \in [Workers -> SUBSET SeedFiles]
  /\ instance \in [Workers -> [Services -> (1..madeSoFar) \cup {Nobody}]]
  /\ boundTo \in [Workers -> [Services -> (1..madeSoFar) \cup {Nobody}]]
  /\ \A w \in Workers, t \in Threads : Len(asking[w][t]) <= 2

\* The services that an administration reads its figures from are the ones
\* that the requests use: once it is bound, whichever instance of them a
\* thread was given, and whenever, is the bound one, however the requests
\* raced.  A worker whose binding failed has no bound administration; there,
\* as with the other services, a race can leave a thread with an instance
\* that nobody else sees.
BoundServicesAreOne ==
  \A w \in Workers, t \in Threads :
    held[w][t] # <<>> /\ boundTo[w][held[w][t][1]] # Nobody
      => held[w][t][2] = boundTo[w][held[w][t][1]]

=============================================================================
