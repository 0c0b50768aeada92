------------------------------ MODULE Customers ------------------------------
(***************************************************************************)
(* The customer service (customer_service): customers with their tags,     *)
(* their addresses and payment methods, one of which may be the default,    *)
(* and support tickets, in PostgreSQL; preferences, ticket messages and the *)
(* activity log in MongoDB.  A request commits in PostgreSQL first, writes  *)
(* to MongoDB afterwards and logs itself last.  To make a row the default,  *)
(* a request clears the defaults that it sees and then stores its own.      *)
(***************************************************************************)
EXTENDS Integers, FiniteSets

CONSTANTS
    People,     \* normalised e-mail addresses, one customer each
    Requests,   \* HTTP requests; each is issued at most once
    Budget,     \* how many of them are issued at most
    Nobody      \* the owner or the row of a request that has none

Kinds == {"address", "payment_method"}

(* Tags that a customer has or has not: a loyalty tier above bronze, is_wholesale. *)
Tags == {"loyalty_tier", "is_wholesale"}

TicketStatus == {"open", "in_progress", "waiting_customer", "resolved", "closed"}

CustomersAssumption == Budget \in Nat /\ Nobody \notin People \cup Requests

VARIABLES
    registered, \* the customers rows
    tags,       \* tags[p]: the tags in the row of p
    preferences,\* MongoDB: preferences[p], "default" from the registration
    cards,      \* addresses and payment_methods rows, named by their request
    tickets,    \* tickets[r]: the support_tickets row that request r opened
    messages,   \* MongoDB: <<ticket, request that wrote the message>>
    activity,   \* MongoDB: <<request, customer>>, what the requests logged
    serving,    \* serving[r]: how far the handler of request r has come
    alone       \* history: alone[r], no handler has run beside that of r

vars == <<registered, tags, preferences, cards, tickets, messages, activity, serving, alone>>

people == <<registered, tags, preferences>>

Idle == {"new", "done", "failed"}

Stage == Idle \cup {"registering", "registered", "tagging", "preferring", "storing",
                    "deleting", "opening", "opened", "patching", "writing", "logging"}

Card == [id : Requests, owner : People, kind : Kinds, default : BOOLEAN]

NoTicket == [owner |-> Nobody, status |-> "open", dated |-> FALSE]

(* What a handler keeps: the customer, the row it changes, and what it does:     *)
(* the default flag or status to write, the rows whose flag it clears, the tags    *)
(* that were given and those of them that it will change.                          *)
NoService == [stage |-> "new", person |-> Nobody, row |-> Nobody, kind |-> "address",
              default |-> FALSE, seen |-> "none", target |-> "none", clear |-> {},
              given |-> {}, turned |-> {}]

TypeOK ==
    /\ registered \subseteq People
    /\ tags \in [People -> SUBSET Tags]
    /\ preferences \in [People -> {"none", "default", "chosen"}]
    /\ cards \subseteq Card
    /\ tickets \in [Requests -> [owner : People \cup {Nobody}, status : TicketStatus,
                                 dated : BOOLEAN]]
    /\ messages \subseteq Requests \X Requests
    /\ activity \subseteq Requests \X People
    /\ serving \in [Requests ->
          [stage : Stage, person : People \cup {Nobody}, row : Requests \cup {Nobody},
           kind : Kinds, default : BOOLEAN, seen : TicketStatus \cup {"none"},
           target : TicketStatus \cup {"none"}, clear : SUBSET Requests,
           given : SUBSET Tags, turned : SUBSET Tags]]
    /\ alone \in [Requests -> BOOLEAN]

(* Some people may have registered before. *)
Init ==
    /\ registered \in SUBSET People
    /\ tags = [p \in People |-> {}]
    /\ preferences = [p \in People |-> IF p \in registered THEN "default" ELSE "none"]
    /\ cards = {}
    /\ tickets = [r \in Requests |-> NoTicket] /\ messages = {} /\ activity = {}
    /\ serving = [r \in Requests |-> NoService]
    /\ alone = [r \in Requests |-> TRUE]

-----------------------------------------------------------------------------
InFlight(r) == serving[r].stage \notin Idle

(* A handler starts; those that are under way are no longer alone.                *)
Begin(r, h) ==
    /\ serving[r].stage = "new"
    /\ Cardinality({q \in Requests : serving[q].stage # "new"}) < Budget
    /\ serving' = [serving EXCEPT ![r] = h]
    /\ alone' = [q \in Requests |->
          IF q = r THEN ~\E p \in Requests : InFlight(p) ELSE alone[q] /\ ~InFlight(q)]

Advance(r, stage) ==
    /\ serving' = [serving EXCEPT ![r].stage = stage]
    /\ UNCHANGED alone

Finish(r, final) ==
    /\ serving' = [serving EXCEPT ![r] = [NoService EXCEPT !.stage = final]]
    /\ UNCHANGED alone

-----------------------------------------------------------------------------
(* log_activity, the last step of every handler that changed something.            *)
Log(r) ==
    /\ serving[r].stage = "logging"
    /\ activity' = activity \cup {<<r, serving[r].person>>}
    /\ Finish(r, "done")
    /\ UNCHANGED <<people, cards, tickets, messages>>

(* login_customer and request_password_reset of a customer who is found.           *)
Visit(r, p) ==
    /\ p \in registered
    /\ Begin(r, [NoService EXCEPT !.stage = "logging", !.person = p])
    /\ UNCHANGED <<people, cards, tickets, messages, activity>>

-----------------------------------------------------------------------------
(* register_customer looks the address up as the client spelled it, stores it     *)
(* in lower case, and stores the preferences after the commit.                     *)
RegisterCheck(r, p, spelling) ==
    /\ p \notin registered \/ spelling = "other"
    /\ Begin(r, [NoService EXCEPT !.stage = "registering", !.person = p])
    /\ UNCHANGED <<people, cards, tickets, messages, activity>>

(* The unique index refuses an address that was registered.                        *)
RegisterCommit(r) ==
    /\ serving[r].stage = "registering"
    /\ registered' = registered \cup {serving[r].person}
    /\ IF serving[r].person \in registered THEN Finish(r, "failed")
                                           ELSE Advance(r, "registered")
    /\ UNCHANGED <<tags, preferences, cards, tickets, messages, activity>>

(* insert_one, which the unique index refuses if the customer was found and chose    *)
(* preferences meanwhile.                                                            *)
RegisterDocument(r) ==
    LET p == serving[r].person IN
    /\ serving[r].stage = "registered"
    /\ IF preferences[p] = "none"
       THEN preferences' = [preferences EXCEPT ![p] = "default"] /\ Advance(r, "logging")
       ELSE UNCHANGED preferences /\ Finish(r, "failed")
    /\ UNCHANGED <<registered, tags, cards, tickets, messages, activity>>

(* update_preferences: an upsert.                                                    *)
ChoosePreferences(r, p) ==
    /\ p \in registered
    /\ Begin(r, [NoService EXCEPT !.stage = "preferring", !.person = p])
    /\ UNCHANGED <<people, cards, tickets, messages, activity>>

ChosenDocument(r) ==
    /\ serving[r].stage = "preferring"
    /\ preferences' = [preferences EXCEPT ![serving[r].person] = "chosen"]
    /\ Advance(r, "logging")
    /\ UNCHANGED <<registered, tags, cards, tickets, messages, activity>>

(* update_customer, update_customer_tags: the fields that are given are set on the    *)
(* row as it was loaded, and the UPDATE writes those that differ.                      *)
TagCustomer(r, p, given, on) ==
    /\ p \in registered
    /\ Begin(r, [NoService EXCEPT !.stage = "tagging", !.person = p, !.default = on,
                    !.given = given, !.turned = IF on THEN given \ tags[p]
                                                      ELSE given \cap tags[p]])
    /\ UNCHANGED <<people, cards, tickets, messages, activity>>

TagCommit(r) ==
    LET h == serving[r] IN
    /\ h.stage = "tagging"
    /\ tags' = [tags EXCEPT ![h.person] = IF h.default THEN @ \cup h.turned ELSE @ \ h.turned]
    /\ Advance(r, "logging")
    /\ UNCHANGED <<registered, preferences, cards, tickets, messages, activity>>

-----------------------------------------------------------------------------
(* A plausible slip: the other kind's defaults are cleared as well, or instead. *)
DefaultsOfOtherKind(p, kind) ==
    {c.id : c \in {d \in cards : d.owner = p /\ d.kind # kind /\ d.default}}

(* clear_default_addresses, clear_default_payment_methods: an UPDATE of the rows   *)
(* that are the default as it starts.                                              *)
Defaults(p, kind) == {c.id : c \in {d \in cards : d.owner = p /\ d.kind = kind /\ d.default}}

(* create_address, create_payment_method *)
CreateCard(r, p, kind, default) ==
    /\ p \in registered
    /\ Begin(r, [NoService EXCEPT !.stage = "storing", !.person = p, !.row = r, !.kind = kind,
                    !.default = default, !.clear = IF default THEN Defaults(p, kind) ELSE {}])
    /\ UNCHANGED <<people, cards, tickets, messages, activity>>

(* update_address: only addresses can be changed; the flag is written if it is      *)
(* given, and not the one that was read and cleared.                                *)
UpdateAddress(r, c, default) ==
    /\ c.kind = "address"
    /\ Begin(r, [NoService EXCEPT !.stage = "storing", !.person = c.owner, !.row = c.id,
                    !.default = default,
                    !.clear = IF default THEN Defaults(c.owner, "address")
                              ELSE IF c.default THEN {c.id} ELSE {}])
    /\ UNCHANGED <<people, cards, tickets, messages, activity>>

Cleared(some, ids) ==
    {IF c.id \in ids THEN [c EXCEPT !.default = FALSE] ELSE c : c \in some}

(* An UPDATE of a row that was deleted meanwhile is an error, and nothing is       *)
(* changed.                                                                         *)
StoreCommit(r) ==
    LET h == serving[r]
        row == [id |-> h.row, owner |-> h.person, kind |-> h.kind, default |-> h.default]
        exists == \E c \in cards : c.id = h.row
        updates == h.row # r /\ (h.default \/ h.clear # {}) IN
    /\ h.stage = "storing"
    /\ IF updates /\ ~exists
       THEN Finish(r, "failed") /\ UNCHANGED cards
       ELSE /\ cards' = IF h.row = r \/ updates
                        THEN {c \in Cleared(cards, h.clear) : c.id # h.row} \cup {row}
                        ELSE cards
            /\ Advance(r, "logging")
    /\ UNCHANGED <<people, tickets, messages, activity>>

(* delete_address, delete_payment_method *)
DeleteCard(r, c) ==
    /\ Begin(r, [NoService EXCEPT !.stage = "deleting", !.person = c.owner, !.row = c.id])
    /\ UNCHANGED <<people, cards, tickets, messages, activity>>

DeleteCommit(r) ==
    /\ serving[r].stage = "deleting"
    /\ cards' = {c \in cards : c.id # serving[r].row}
    /\ Advance(r, "logging")
    /\ UNCHANGED <<people, tickets, messages, activity>>

-----------------------------------------------------------------------------
(* create_support_ticket: the row, then its description as the first message.       *)
OpenTicket(r, p) ==
    /\ p \in registered
    /\ Begin(r, [NoService EXCEPT !.stage = "opening", !.person = p])
    /\ UNCHANGED <<people, cards, tickets, messages, activity>>

OpenCommit(r) ==
    /\ serving[r].stage = "opening"
    /\ tickets' = [tickets EXCEPT ![r].owner = serving[r].person]
    /\ Advance(r, "opened")
    /\ UNCHANGED <<people, cards, messages, activity>>

OpenDocument(r) ==
    /\ serving[r].stage = "opened"
    /\ messages' = messages \cup {<<r, r>>}
    /\ Advance(r, "logging")
    /\ UNCHANGED <<people, cards, tickets, activity>>

(* add_ticket_message, which does not look at the ticket's status.                     *)
WriteMessage(r, t) ==
    /\ tickets[t].owner # Nobody
    /\ Begin(r, [NoService EXCEPT !.stage = "writing", !.person = tickets[t].owner, !.row = t])
    /\ UNCHANGED <<people, cards, tickets, messages, activity>>

MessageDocument(r) ==
    /\ serving[r].stage = "writing"
    /\ messages' = messages \cup {<<serving[r].row, r>>}
    /\ Advance(r, "logging")
    /\ UNCHANGED <<people, cards, tickets, activity>>

(* update_support_ticket: any status may follow any other.                           *)
PatchTicket(r, t, status) ==
    /\ tickets[t].owner # Nobody
    /\ Begin(r, [NoService EXCEPT !.stage = "patching", !.row = t,
                                  !.person = tickets[t].owner, !.seen = tickets[t].status, !.target = status])
    /\ UNCHANGED <<people, cards, tickets, messages, activity>>

Ended == {"resolved", "closed"}

Dated(target) == target \in Ended

PatchCommit(r) ==
    LET h == serving[r] IN
    /\ h.stage = "patching"
    /\ tickets' = [tickets EXCEPT
          ![h.row].status = IF h.target # h.seen THEN h.target ELSE @,
          ![h.row].dated = @ \/ Dated(h.target)]
    /\ Advance(r, "logging")
    /\ UNCHANGED <<people, cards, messages, activity>>

(* The process dies or a store refuses: what was committed stays.                     *)
Fail(r) ==
    /\ InFlight(r)
    /\ Finish(r, "failed")
    /\ UNCHANGED <<people, cards, tickets, messages, activity>>

Next ==
    \E r \in Requests :
        \/ \E p \in People :
               \/ \E spelling \in {"lower", "other"} : RegisterCheck(r, p, spelling)
               \/ \E kind \in Kinds, default \in BOOLEAN : CreateCard(r, p, kind, default)
               \/ \E given \in (SUBSET Tags) \ {{}}, on \in BOOLEAN : TagCustomer(r, p, given, on)
               \/ Visit(r, p) \/ ChoosePreferences(r, p) \/ OpenTicket(r, p)
        \/ \E c \in cards : DeleteCard(r, c) \/ \E default \in BOOLEAN : UpdateAddress(r, c, default)
        \/ \E t \in Requests :
               WriteMessage(r, t) \/ \E status \in TicketStatus : PatchTicket(r, t, status)
        \/ RegisterCommit(r) \/ RegisterDocument(r) \/ ChosenDocument(r) \/ TagCommit(r)
        \/ StoreCommit(r) \/ DeleteCommit(r)
        \/ OpenCommit(r) \/ OpenDocument(r) \/ MessageDocument(r) \/ PatchCommit(r)
        \/ Log(r)
        \/ Fail(r)

Spec == Init /\ [][Next]_vars

-----------------------------------------------------------------------------
(* Properties. *)

(* MongoDB follows PostgreSQL: it never knows a customer or a ticket that PostgreSQL   *)
(* does not, and a customer without preferences, a ticket without its opening message,  *)
(* or an address, payment method or ticket that nobody logged, is being served or was     *)
(* left behind by a request that died.                                                    *)
DocumentsFollowRows ==
    /\ \A p \in People \ registered : preferences[p] = "none"
    /\ \A m \in messages : tickets[m[1]].owner # Nobody
    /\ \A a \in activity : a[2] \in registered
    /\ \A p \in registered :
           preferences[p] = "none" =>
               \E r \in Requests : \/ serving[r].stage = "registered" /\ serving[r].person = p
                                   \/ serving[r].stage = "failed"
    /\ \A t \in Requests :
           (tickets[t].owner # Nobody /\ <<t, t>> \notin messages) =>
               serving[t].stage \in {"opened", "failed"}
    /\ \A r \in Requests :
           (tickets[r].owner # Nobody \/ \E c \in cards : c.id = r) =>
               \/ \E p \in People : <<r, p>> \in activity
               \/ serving[r].stage \in {"opened", "logging", "failed"}

(* However updates of a ticket overlap, a ticket that is resolved or closed has a      *)
(* closing date.                                                                        *)
EndedIsDated == \A t \in Requests : tickets[t].status \in Ended => tickets[t].dated

Chosen(p, kind) == {c.id : c \in {d \in cards : <<d.owner, d.kind, d.default>> = <<p, kind, TRUE>>}}

(* Overlapping requests may leave a customer with two defaults, but a request that     *)
(* runs alone to make a row the default leaves that row as the only default of its       *)
(* kind, and one that runs alone never adds a second default.                            *)
LoneDefaultWins ==
    [][\A r, row \in Requests, p \in People, kind \in Kinds :
          (/\ serving[r].stage = "storing" /\ serving'[r].stage = "logging" /\ alone[r]
           /\ serving[r].person = p /\ serving[r].kind = kind /\ serving[r].row = row) =>
              IF serving[r].default THEN Chosen(p, kind)' = {row}
              ELSE Chosen(p, kind)' \subseteq Chosen(p, kind)]_vars

(* Preferences that a customer chose are never replaced by those of a registration     *)
(* that is still on its way, and a patch of the tags that runs alone sets every tag it   *)
(* was given and no other.                                                                *)
ChoicesStick ==
    [][/\ \A p \in People : preferences[p] = "chosen" => preferences'[p] = "chosen"
       /\ \A r \in Requests, p \in People :
              (/\ serving[r].stage = "tagging" /\ serving'[r].stage = "logging" /\ alone[r]
               /\ serving[r].person = p) =>
                  LET given == serving[r].given IN
                  tags'[p] = IF serving[r].default THEN tags[p] \cup given
                             ELSE tags[p] \ given]_vars
=============================================================================
