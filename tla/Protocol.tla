------------------------------ MODULE Protocol ------------------------------
(***************************************************************************)
(* The lines that the management station and the classroom clients send to *)
(* the agents, as parse_cmd of src/server/cmd.cpp takes them apart.        *)
(* Text is abstracted to what the parsers tell apart: the id, the verb and *)
(* how many words there are.                                               *)
(***************************************************************************)
EXTENDS Integers

\* The id of an agent that has none, and the id of every error reply.
Anonymous == -1

\* boost::tokenizer<> drops punctuation, the minus sign of "-1 HELLO" included.
TokenizedId(id) == IF id < 0 THEN -id ELSE id

\* The words that must follow each verb; SHOW takes any number of them.
Arity == [HELLO |-> 0, BYE |-> 0, OPENVNC |-> 1, CLOSEVNC |-> 0, SHUTDOWN |-> 0]

Verbs == DOMAIN Arity \cup {"SHOW"}

\* parse_cmd: the first CMD whose create() accepts the line, CMD_error if none.
Accepted(line) ==
    \/ line.verb = "SHOW"
    \/ line.verb \in DOMAIN Arity /\ line.args = Arity[line.verb]

ParseCmd(line) ==
    IF Accepted(line)
    THEN [cmd |-> line.verb, id |-> TokenizedId(line.id)]
    ELSE [cmd |-> "ERROR", id |-> Anonymous]
=============================================================================
