------------------------------ MODULE Startup -------------------------------
(***************************************************************************)
(* How a deployment comes up: docker-compose.yml first starts a container    *)
(* when those it depends on are healthy and restarts it whenever it exits;    *)
(* entrypoint.sh creates the service's schema, migrates it with Alembic in    *)
(* one transaction (env.py) and starts the application, which creates its      *)
(* MongoDB indexes; GET /health asks one store after the other.  Stores and     *)
(* containers fail at any moment, and an operator may take a migration back.     *)
(***************************************************************************)
EXTENDS Schemas, Naturals, SequencesExt

CONSTANTS
    Deployments,    \* sets of services that may be deployed; all others have been up for long
    Faults          \* how often a store or a container fails

StartupAssumption == Faults \in Nat

VARIABLES
    deployment, \* the services that are deployed
    up,         \* the stores that answer
    faults,     \* how many faults there have been
    schema,     \* schema[s]: the objects and the revision that are committed
    container,  \* container[s]: how far the container of s has come
    operator    \* the operator's downgrade: the service, what is left to do and done

Services == UNION Deployments

Nothing == [objects |-> {}, revision |-> "base"]

Stage == {"created", "booting", "connecting", "migrating", "migrated", "serving", "exited"}

Report == {"none", "ok", "degraded"}

Container(stage) ==
    [stage |-> stage, todo |-> << >>, draft |-> Nothing, asked |-> 0, bad |-> FALSE,
     report |-> "none"]

Rest == [service |-> "none", todo |-> << >>, draft |-> Nothing]

Migrates(s) == Revisions(s) # << >>

Names(db) == {o.name : o \in db.objects}

RevisionId(n) == << "base", "001", "002" >>[n + 1]

Number(revision) == CHOOSE n \in 0..2 : RevisionId(n) = revision

Created(script) == {script[i] : i \in DOMAIN script}

(* What the revisions up to the n-th create. *)
Objects(s, n) == UNION {Created(Revisions(s)[i].up) : i \in 1..n}

TypeOK ==
    /\ deployment \in Deployments
    /\ up \subseteq Stores
    /\ faults \in 0..Faults
    /\ \A s \in deployment :
        /\ container[s].stage \in Stage
        /\ container[s].report \in Report
        /\ container[s].asked \in 0..Len(Asks(s))
        /\ container[s].report # "none" => container[s].stage = "serving"
        /\ schema[s].revision \in {RevisionId(n) : n \in 0..Len(Revisions(s))}
    /\ operator.service \in deployment \cup {"none"}

Init ==
    /\ deployment \in Deployments
    /\ up = Stores
    /\ faults = 0
    /\ schema = [s \in deployment |-> Nothing]
    /\ container = [s \in deployment |-> Container("created")]
    /\ operator = Rest

-----------------------------------------------------------------------------
(* SQL statements, in a transaction of their own. *)

Refused(db, st) ==
    CASE st.do \in {"type", "table", "row"} ->
            st.name \notin Names(db) /\ ~(st.needs \subseteq Names(db))
      [] st.do = "drop" ->
            \/ st.name \notin Names(db)
            \/ \E o \in db.objects : o.do # "row" /\ st.name \in o.needs
      [] st.do = "stamp" -> "alembic_version" \notin Names(db)
      [] OTHER -> FALSE

Without(objects, name) == {o \in objects : o.name # name /\ name \notin o.needs}

Execute(db, st) ==
    CASE st.do \in {"type", "table", "row"} ->
            IF st.name \in Names(db) THEN db ELSE [db EXCEPT !.objects = @ \cup {st}]
      [] st.do = "drop" -> [db EXCEPT !.objects = Without(@, st.name)]
      [] st.do = "drop_schema" -> [db EXCEPT !.objects = {}]
      [] st.do = "stamp" -> [db EXCEPT !.revision = st.name]

(* The statements from revision n to the last, and from revision n down to the target. *)
Upgrades(s, n) ==
    FlattenSeq([i \in 1..(Len(Revisions(s)) - n) |->
                    Append(Revisions(s)[n + i].up, Stamp(RevisionId(n + i)))])

Downgrades(s, n, target) ==
    FlattenSeq([i \in 1..(n - target) |->
                    Append(Revisions(s)[n + 1 - i].down, Stamp(RevisionId(n - i)))])

-----------------------------------------------------------------------------
(* Containers. *)

Healthy(c) ==
    IF c \in Stores THEN c \in up
    ELSE c \in deployment => container[c].report # "none"

(* docker compose up, repeated until everything has been started. *)
Start(s) ==
    /\ container[s].stage = "created"
    /\ \A c \in DependsOn(s) : Healthy(c)
    /\ container' = [container EXCEPT ![s].stage = "booting"]
    /\ UNCHANGED <<deployment, up, faults, schema, operator>>

(* restart: unless-stopped, which does not look at depends_on. *)
Restart(s) ==
    /\ container[s].stage = "exited"
    /\ container' = [container EXCEPT ![s].stage = "booting"]
    /\ UNCHANGED <<deployment, up, faults, schema, operator>>

(* entrypoint.sh creates the schema in a transaction of its own. *)
CreateNamespace(s) ==
    /\ container[s].stage = "booting"
    /\ Migrates(s)
    /\ "postgres" \in up
    /\ schema' = [schema EXCEPT ![s].objects =
                    IF "schema" \in Names(schema[s]) THEN @ ELSE @ \cup {Namespace}]
    /\ container' = [container EXCEPT ![s].stage = "connecting"]
    /\ UNCHANGED <<deployment, up, faults, operator>>

(* alembic upgrade head: whatever is missing, in one transaction.  An operator's    *)
(* command on the same schema is waited for.                                          *)
BeginUpgrade(s) ==
    /\ container[s].stage = "connecting"
    /\ "postgres" \in up
    /\ operator.service # s
    /\ container' = [container EXCEPT
            ![s].stage = "migrating",
            ![s].todo = Upgrades(s, Number(schema[s].revision)),
            ![s].draft = Execute(schema[s], VersionTable)]
    /\ UNCHANGED <<deployment, up, faults, schema, operator>>

(* A plausible slip: every statement is committed on its own. *)
UpgradeAutocommitted(s) ==
    LET c == container[s] IN
    /\ c.stage = "migrating"
    /\ c.todo # << >>
    /\ "postgres" \in up
    /\ ~Refused(c.draft, c.todo[1])
    /\ container' = [container EXCEPT ![s].todo = Tail(@),
                                      ![s].draft = Execute(@, c.todo[1])]
    /\ schema' = [schema EXCEPT ![s] = Execute(c.draft, c.todo[1])]
    /\ UNCHANGED <<deployment, up, faults, operator>>

Upgrade(s) ==
    LET c == container[s] IN
    /\ c.stage = "migrating"
    /\ c.todo # << >>
    /\ "postgres" \in up
    /\ ~Refused(c.draft, c.todo[1])
    /\ container' = [container EXCEPT ![s].todo = Tail(@),
                                      ![s].draft = Execute(@, c.todo[1])]
    /\ UNCHANGED <<deployment, up, faults, schema, operator>>

Commit(s) ==
    /\ container[s].stage = "migrating"
    /\ container[s].todo = << >>
    /\ "postgres" \in up
    /\ schema' = [schema EXCEPT ![s] = container[s].draft]
    /\ container' = [container EXCEPT ![s] = Container("migrated")]
    /\ UNCHANGED <<deployment, up, faults, operator>>

(* exec uvicorn, and the lifespan of the application. *)
Serve(s) ==
    /\ container[s].stage = IF Migrates(s) THEN "migrated" ELSE "booting"
    /\ s \in IndexesMongo => "mongo" \in up
    /\ container' = [container EXCEPT ![s].stage = "serving"]
    /\ UNCHANGED <<deployment, up, faults, schema, operator>>

(* What a container on its way needs is not there, or a statement is refused: set -e *)
(* ends it, and PostgreSQL rolls back.                                                  *)
Break(s) ==
    LET c == container[s] IN
    /\ \/ "postgres" \notin up /\ Migrates(s) /\ c.stage \in {"booting", "connecting", "migrating"}
       \/ c.stage = "migrating" /\ c.todo # << >> /\ Refused(c.draft, c.todo[1])
       \/ "mongo" \notin up /\ s \in IndexesMongo /\ c.stage = "migrated"
    /\ container' = [container EXCEPT ![s] = Container("exited")]
    /\ UNCHANGED <<deployment, up, faults, schema, operator>>

Die(s) ==
    /\ faults < Faults
    /\ container[s].stage \notin {"created", "exited"}
    /\ faults' = faults + 1
    /\ container' = [container EXCEPT ![s] = Container("exited")]
    /\ UNCHANGED <<deployment, up, schema, operator>>

-----------------------------------------------------------------------------
(* GET /health, asked by Docker and by the terminal. *)

Ask(s) ==
    LET c == container[s] IN
    /\ c.stage = "serving"
    /\ c.asked < Len(Asks(s))
    /\ container' = [container EXCEPT
            ![s].asked = @ + 1,
            ![s].bad = @ \/ Asks(s)[c.asked + 1] \notin up]
    /\ UNCHANGED <<deployment, up, faults, schema, operator>>

(* Status 200 either way, so a degraded service is a healthy container. *)
Answer(s) ==
    LET c == container[s] IN
    /\ c.stage = "serving"
    /\ c.asked = Len(Asks(s))
    /\ container' = [container EXCEPT
            ![s].asked = 0, ![s].bad = FALSE,
            ![s].report = IF c.bad THEN "degraded" ELSE "ok"]
    /\ UNCHANGED <<deployment, up, faults, schema, operator>>

-----------------------------------------------------------------------------
(* Stores, and the operator. *)

(* A store goes away, and PostgreSQL takes every open transaction with it. *)
GoAway(d) ==
    /\ faults < Faults
    /\ d \in up
    /\ up' = up \ {d}
    /\ faults' = faults + 1
    /\ operator' = IF d = "postgres" THEN Rest ELSE operator
    /\ UNCHANGED <<deployment, schema, container>>

ComeBack(d) ==
    /\ d \notin up
    /\ up' = up \cup {d}
    /\ UNCHANGED <<deployment, faults, schema, container, operator>>

(* alembic downgrade of a service that serves, to any earlier revision. *)
Downgrade(s, target) ==
    /\ operator = Rest
    /\ faults < Faults
    /\ container[s].stage = "serving"
    /\ "postgres" \in up
    /\ target < Number(schema[s].revision)
    /\ faults' = faults + 1
    /\ operator' = [service |-> s, draft |-> schema[s],
                    todo |-> Downgrades(s, Number(schema[s].revision), target)]
    /\ UNCHANGED <<deployment, up, schema, container>>

Continue ==
    /\ operator.todo # << >>
    /\ ~Refused(operator.draft, operator.todo[1])
    /\ operator' = [operator EXCEPT !.todo = Tail(@),
                                    !.draft = Execute(@, operator.todo[1])]
    /\ UNCHANGED <<deployment, up, faults, schema, container>>

CommitDowngrade ==
    /\ operator # Rest
    /\ operator.todo = << >>
    /\ schema' = [schema EXCEPT ![operator.service] = operator.draft]
    /\ operator' = Rest
    /\ UNCHANGED <<deployment, up, faults, container>>

(* A refused statement takes the whole command back. *)
Rollback ==
    /\ operator.todo # << >>
    /\ Refused(operator.draft, operator.todo[1])
    /\ operator' = Rest
    /\ UNCHANGED <<deployment, up, faults, schema, container>>

Progress(s) ==
    \/ Start(s) \/ Restart(s) \/ CreateNamespace(s) \/ BeginUpgrade(s) \/ Upgrade(s)
    \/ Commit(s) \/ Serve(s) \/ Break(s) \/ Ask(s) \/ Answer(s)

Command == Continue \/ CommitDowngrade \/ Rollback

Next ==
    \/ \E s \in deployment :
        Progress(s) \/ Die(s) \/ \E target \in 0..1 : Downgrade(s, target)
    \/ \E d \in Stores : GoAway(d) \/ ComeBack(d)
    \/ Command

vars == <<deployment, up, faults, schema, container, operator>>

-----------------------------------------------------------------------------
(* However often containers and stores fail during a migration (one transaction,     *)
(* env.py) and whatever an operator takes back, a committed schema holds exactly what  *)
(* the revisions up to the recorded one create, rows and types included.                *)
SchemaFollowsRevision ==
    \A s \in deployment :
        LET n == Number(schema[s].revision) IN
        /\ schema[s].objects \ {Namespace, VersionTable} = Objects(s, n)
        /\ n > 0 => {Namespace, VersionTable} \subseteq schema[s].objects

(* A service that has ever been started finds the schema of every service it depends   *)
(* on (order of depends_on, health after the entrypoint's migration), and one that       *)
(* serves has at least its own first revision: a downgrade to base, which drops the       *)
(* schema with alembic_version in it, is refused at its last statement and undone.         *)
DependenciesCameFirst ==
    \A s \in deployment :
        container[s].stage # "created" =>
            \A d \in (DependsOn(s) \cup {s}) \cap deployment :
                \/ d = s /\ container[s].stage # "serving"
                \/ ~Migrates(d)
                \/ schema[d].revision # "base"

(* Everything comes up and stays up: no statement of a migration is refused for ever, no *)
(* container waits for one that waits for it, and when the stores are back every service   *)
(* ends up reporting ok.                                                                     *)
EverythingComesUp ==
    \A s \in Services :
        <>[](s \in deployment => container[s].stage = "serving" /\ container[s].report = "ok")
=============================================================================
