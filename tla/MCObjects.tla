------------------------------ MODULE MCObjects ------------------------------
(***************************************************************************)
(* Small instances of the modules about objects that own memory or count   *)
(* it: deleter, the compact containers, the chain of a list's nodes and    *)
(* mempool (extended, as theirs are the definitions that theorems are      *)
(* about), and the appenders of a list.  A behaviour is one of one         *)
(* component, and the others stay as they began.                           *)
(***************************************************************************)
EXTENDS Deleter, Compact, Chain, Mempool

VARIABLES part,                                                    \* the component that runs
          lists, node, raw, fault, call, client,                   \* Appenders
          appender, filler, pager, hole, want

Client(calls, data, len, nodes, rs) ==
  [calls |-> calls, lists |-> {"A", "B"}, data |-> data, sizes |-> {1, 2}, bases |-> {0},
   maxLen |-> len, maxNodes |-> nodes, maxRaws |-> rs]
OneString == {<<"b", "a">>}
Strings == {<<"b">>, <<"b", "a">>}

(* Each kind of appender among the calls of the lists, and all three kinds. *)
AppenderClients ==
  {Client({"appender", "append", "copy"}, {<<"b", "a">>, <<"c">>}, 4, 5, 2),
   Client({"append_hole", "append", "copy", "claim_append"}, Strings, 3, 4, 3),
   Client({"pager", "append", "claim_append"}, {<<"b">>, <<"a", "c">>}, 4, 4, 3),
   Client({"appender", "append_hole", "pager"}, {<<"b">>}, 3, 3, 2)}

AP == INSTANCE Appenders WITH Clients <- AppenderClients, Align <- 2, AllocUnit <- 3, Overhead <- 1

heap == <<lists, node, raw, fault>>
tools == <<appender, filler, pager, hole, want>>
apVars == <<heap, call, client, tools>>
chVars == chainVars
deVars == vars
coVars == compactVars
mpVars == memVars
objects == <<part, apVars, chVars, deVars, coVars, mpVars>>

(* The call that a list was made last is not part of the state. *)
View == <<part, heap, client, tools, chVars, deVars, coVars, mpVars>>

ObjectsInit ==
  /\ part \in {"appenders", "buffers_t", "deleter", "compact", "mempool"}
  /\ AP!AppInit /\ (part # "appenders" => client = CHOOSE c \in AppenderClients : TRUE)
  /\ ChainInit /\ Init /\ CompactInit /\ MemInit

AppenderStep == part = "appenders" /\ AP!AppNext /\ UNCHANGED <<part, chVars, deVars, coVars, mpVars>>
ChainStep == part = "buffers_t" /\ ChainNext /\ UNCHANGED <<part, apVars, deVars, coVars, mpVars>>
DeleterStep == part = "deleter" /\ Next /\ UNCHANGED <<part, apVars, chVars, coVars, mpVars>>
CompactStep == part = "compact" /\ CompactNext /\ UNCHANGED <<part, apVars, chVars, deVars, mpVars>>
MempoolStep == part = "mempool" /\ MemNext /\ UNCHANGED <<part, apVars, chVars, deVars, coVars>>

ObjectsNext == AppenderStep \/ ChainStep \/ DeleterStep \/ CompactStep \/ MempoolStep
ObjectsSpec == ObjectsInit /\ [][ObjectsNext]_objects

AppendersShow == AP!AppendersShow
=============================================================================
