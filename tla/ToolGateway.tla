----------------------------- MODULE ToolGateway -----------------------------
(***************************************************************************)
(* examples/ai/readonly_tool_gateway.py: registration of tools under the   *)
(* schema budget, and the dispatch and the record of calls.  A call has    *)
(* one argument, the query.  Its handler is the tool's own code: it may    *)
(* take the query upstream, and may raise before that or after it.  A      *)
(* refusal is no step.  Assistant uses the gateway.                        *)
(***************************************************************************)
EXTENDS Naturals, Sequences, FiniteSetsExt

CONSTANTS
    Tools,               \* tools offered: [name, access, chars of the JSON blob]
    Queries,             \* what callers pass
    Mutating,            \* those that hold a word of _FORBIDDEN
    schema_token_budget

ASSUME GatewayConstants ==
    /\ \A t \in Tools : t.access \in {"read", "write"} /\ t.chars \in Nat
    /\ Mutating \subseteq Queries
    /\ schema_token_budget \in Nat

VARIABLES
    tools,    \* _tools
    calls,    \* the record, as <<name, query>>
    running,  \* the call whose handler is at work, as a sequence of one or none
    reached   \* history: the queries taken upstream, each with its tool

gatewayVars == <<tools, calls, running, reached>>

Names == {t.name : t \in Tools}

GatewayTypeOK ==
    /\ tools \subseteq Tools
    /\ calls \in Seq(Names \X Queries)
    /\ running \in {<<>>} \cup {<<c>> : c \in [tool : Tools, query : Queries, sent : BOOLEAN]}
    /\ reached \in Seq([tool : Tools, query : Queries])

GatewayInit == tools = {} /\ calls = <<>> /\ running = <<>> /\ reached = <<>>

-----------------------------------------------------------------------------

\* About four characters a token, rounded down for each tool.
schema_tokens(t) == t.chars \div 4

schema_cost == MapThenSumSet(schema_tokens, tools)

\* Faulty Register: asks whether there is room before the tool, not after.
RegisterUnprojected(t) ==
    /\ t.access # "write"
    /\ t.name \notin {u.name : u \in tools}
    /\ schema_cost < schema_token_budget
    /\ tools' = tools \cup {t}
    /\ UNCHANGED <<calls, running, reached>>

Register(t) ==
    /\ t.access # "write"
    /\ t.name \notin {u.name : u \in tools}
    /\ schema_cost + schema_tokens(t) <= schema_token_budget
    /\ tools' = tools \cup {t}
    /\ UNCHANGED <<calls, running, reached>>

\* Faulty Call: the record follows the handler, so that of one that raises is lost.
CallThenRecord(name, query) ==
    /\ query \notin Mutating
    /\ \E t \in tools :
          t.name = name /\ running' = <<[tool |-> t, query |-> query, sent |-> FALSE]>>
    /\ calls' \in {calls, Append(calls, <<name, query>>)}
    /\ UNCHANGED <<tools, reached>>

\* The checks and the record; then the handler of the tool of that name starts.
Call(name, query) ==
    /\ query \notin Mutating
    /\ \E t \in tools :
          t.name = name /\ running' = <<[tool |-> t, query |-> query, sent |-> FALSE]>>
    /\ calls' = Append(calls, <<name, query>>)
    /\ UNCHANGED <<tools, reached>>

\* The handler takes its query upstream.
GoUpstream ==
    /\ running # <<>> /\ ~running[1].sent
    /\ running' = [running EXCEPT ![1].sent = TRUE]
    /\ reached' = Append(reached, [tool |-> running[1].tool, query |-> running[1].query])
    /\ UNCHANGED <<tools, calls>>

\* The handler returns or raises, whether or not it has gone upstream, and so
\* does call.
HandlerEnds ==
    /\ running # <<>>
    /\ running' = <<>>
    /\ UNCHANGED <<tools, calls, reached>>

-----------------------------------------------------------------------------
(* Properties.                                                             *)

\* Whatever the order of registrations and refusals, the advertised schemas stay
\* within the budget; in characters, rounding lets them exceed four a token by
\* three a tool and no more (readonly_tool_gateway.py:23-27, 63-77, 114-121).
BudgetHeld ==
    /\ schema_cost <= schema_token_budget
    /\ MapThenSumSet(LAMBDA t : t.chars, tools)
          <= 4 * schema_token_budget + 3 * Cardinality(tools)

\* At every moment, with a handler at work or after it has raised, each query that
\* went upstream has an entry of its own in the record, in that order; and the name
\* in that entry still stands for the read tool that took the query, with no word
\* that mutates in it (readonly_tool_gateway.py:11-21, 138-157).
ReachedIsRecorded ==
    /\ \E entry \in [DOMAIN reached -> DOMAIN calls] :
          /\ \A i \in DOMAIN reached :
                calls[entry[i]] = <<reached[i].tool.name, reached[i].query>>
          /\ \A i, j \in DOMAIN reached : i < j => entry[i] < entry[j]
    /\ \A i \in DOMAIN reached :
          /\ reached[i].query \notin Mutating
          /\ reached[i].tool \in tools /\ reached[i].tool.access = "read"
          /\ \A t \in tools : t.name = reached[i].tool.name => t = reached[i].tool
=============================================================================
