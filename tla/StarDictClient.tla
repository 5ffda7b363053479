--------------------------- MODULE StarDictClient ---------------------------
(***************************************************************************)
(* The client of the StarDict protocol (stardict_client.cpp) with the      *)
(* threads that resolve and connect for it (sockets.cpp).                  *)
(*                                                                         *)
(* Commands wait in cmdlist; the first one has been sent to the server,    *)
(* whose answer is read piece by piece and parsed by a small automaton     *)
(* that decides how the next piece is to be read: up to a newline, up to a *)
(* NUL, or by a length.  A step is the parsing of one piece, so that users *)
(* of the client, the threads and the server may act between any two.      *)
(*                                                                         *)
(* Two connections can come to be made at once.  What follows when both    *)
(* succeed (crossed) is not modelled any further.                          *)
(***************************************************************************)
EXTENDS Integers, Sequences, SequencesExt, FiniteSets

CONSTANTS
    Hosts, Users,      \* Users without ""
    Masks,             \* the sets of dictionaries a user of the server may choose
    Sends,             \* what may be passed to send_commands: sequences of [kind, arg]
    LookupShapes,      \* the answers the server may have to "lookup"
    MaxWords,          \* and the most words it lists before or after another
    StrPool, LookupPool,
    MaxSends, MaxSwitches,
    MaxQueue           \* bound on the commands that wait when others are sent

Blank == ""

ASSUME PoolAssumption == StrPool \in Nat \ {0} /\ LookupPool \in Nat \ {0}
ASSUME ServerAssumption == Hosts # {} /\ Masks # {} /\ Blank \notin Users
ASSUME MaxWordsAssumption == MaxWords \in Nat

LookupKinds == {"lookup", "define", "select", "smart"}
StrKinds == {"getdictmask", "dirinfo", "dictinfo", "maxdictcount"}
ListKinds == {"previous", "next"}

\* The login is sent by the client itself; "getdictmask" is asked without an argument.
ASSUME SendsAssumption ==
    /\ Sends \subseteq Seq((LookupKinds \cup StrKinds \cup ListKinds \cup {"setmask"}) \X STRING)
    /\ \A cmds \in Sends : \A i \in DOMAIN cmds :
          /\ cmds[i][1] = "setmask" => cmds[i][2] \in Masks
          /\ cmds[i][1] = "getdictmask" => cmds[i][2] = Blank

\* Piece by piece: a line has a status code, a string is empty or not, and of what
\* is read by length the header comes whole and the data in units.
Piece(how, value, tag) == [how |-> how, value |-> value, tag |-> tag]

VARIABLES
    host, user,                 \* what set_server and set_auth were last given
    hostResolved, sa,           \* sa: the host of which it is the address
    dns,                        \* dns_map: the hosts the program knows the address of
    attempts,                   \* the threads under way: [phase, host, sd]
    sd,                         \* the last socket made, 0 for none
    channel,                    \* the socket that is read, 0 for NULL
    waiting_banner, reading_type, size_left, size_count,
    cmdlist,                    \* commands: [kind, arg, st, resp, tags]
    strs, strPos, lookups, lookupPos,    \* the two pools and the places to fill next
    said,                       \* the answer a step emits last, or Free
    requests, wire, session,    \* the server: to answer, on its way, logged in as
    mask,                       \* mask[host][user]: what the server keeps
    sends, switches,            \* bounds: calls of users so far
    crossed, moved, doubt, orphaned      \* history

client == <<host, user, hostResolved, sa, dns, attempts, sd>>
reader == <<channel, waiting_banner, reading_type, size_left, size_count>>
pools == <<strs, strPos, lookups, lookupPos>>
server == <<requests, wire, session, mask>>
bounds == <<sends, switches>>
history == <<crossed, moved, doubt, orphaned>>
vars == <<client, reader, cmdlist, pools, said, server, bounds, history>>

NoResp == [dicts |-> <<>>, type |-> "none", words |-> 0, tree |-> <<>>]
Free == [key |-> <<Blank, Blank>>, got |-> NoResp, tags |-> {}]
Cmd(kind, arg) == [kind |-> kind, arg |-> arg, st |-> 0, resp |-> NoResp, tags |-> {}]
Key(c) == <<c.kind, c.arg>>
Answer(c) == [key |-> Key(c), got |-> c.resp, tags |-> c.tags]
Silent == said' = Free

Pending == attempts # <<>>
Connected == channel # 0
AtRest == ~Connected /\ ~Pending
Idle == AtRest /\ cmdlist = <<>>
NewSocket == CHOOSE n \in 1..(Len(attempts) + 2) :
                n # sd /\ \A i \in DOMAIN attempts : attempts[i].sd # n

-----------------------------------------------------------------------------
(***************************************************************************)
(* What the server sends: one line for a status, then the answer.          *)
(***************************************************************************)
Concat(ss) == FoldLeft(LAMBDA a, b : a \o b, <<>>, ss)
Each(f(_), s) == Concat([i \in DOMAIN s |-> f(s[i])])

DataPieces(n) == <<<<"size", n>>>> \o [i \in 1..n |-> <<"size", -1>>]
WordPieces(w) == <<<<"string", "text">>>> \o Each(DataPieces, w) \o <<<<"size", 0>>>>
DictPieces(d) == <<<<"string", "text">>>> \o Each(WordPieces, d) \o <<<<"string", Blank>>>>
Texts(n) == [i \in 1..n |-> <<"string", "text">>]
BranchPieces(n) == Texts(n + 1) \o <<<<"string", Blank>>>>

\* The rest of the answer to a command of this kind.
Body(kind, shape) ==
    CASE kind \in LookupKinds ->
            <<<<"string", "text">>>> \o Each(DictPieces, shape.dicts) \o <<<<"string", Blank>>>>
            \o (IF kind # "lookup" THEN <<>>
                ELSE <<<<"string", shape.type>>>>
                     \o (IF shape.type = "d" THEN Each(BranchPieces, shape.tree)
                         ELSE Texts(shape.words))
                     \o <<<<"string", Blank>>>>)
      [] kind \in ListKinds -> Texts(shape.words) \o <<<<"string", Blank>>>>
      [] kind \in StrKinds -> Texts(1)
      [] OTHER -> <<>>

Pieces(code, body, tag) ==
    <<Piece("line", code, tag)>> \o [i \in DOMAIN body |-> Piece(body[i][1], body[i][2], tag)]

\* What the answer to a command of this kind may look like.
Shapes(kind) ==
    CASE kind = "lookup" -> LookupShapes
      [] kind \in LookupKinds -> {[NoResp EXCEPT !.dicts = s.dicts] : s \in LookupShapes}
      [] kind \in ListKinds -> {[NoResp EXCEPT !.words = n] : n \in 0..MaxWords}
      [] OTHER -> {NoResp}

\* Whose answer it is, which decides what it is the answer of.
Tag(c, shape) == [key |-> Key(c), host |-> session.host, user |-> session.user,
                  mask |-> mask[session.host][session.user], shape |-> shape]

-----------------------------------------------------------------------------
(***************************************************************************)
(* The two pools of answers.  The first entry with the key is found,       *)
(* whichever was put in last.                                              *)
(***************************************************************************)
Found(pool, key) == {i \in DOMAIN pool : pool[i].key = key}
Get(pool, key) == pool[CHOOSE i \in Found(pool, key) : \A j \in Found(pool, key) : i <= j]
Emptied(pool) == [i \in DOMAIN pool |-> Free]
Without(pool, key) == [i \in DOMAIN pool |-> IF pool[i].key = key THEN Free ELSE pool[i]]
After(pos, size) == IF pos = size THEN 1 ELSE pos + 1

PoolFor(kind) == IF kind \in LookupKinds THEN lookups ELSE strs
InCache(c) == c.kind \notin ListKinds /\ Found(PoolFor(c.kind), Key(c)) # {}

SaveStr(c) ==
    /\ strs' = [strs EXCEPT ![strPos] = Answer(c)]
    /\ strPos' = After(strPos, StrPool)
    /\ UNCHANGED <<lookups, lookupPos>>

SaveLookup(c) ==
    /\ lookups' = [lookups EXCEPT ![lookupPos] = Answer(c)]
    /\ lookupPos' = After(lookupPos, LookupPool)
    /\ UNCHANGED <<strs, strPos>>

\* Mutant of CleanAll: set_server keeps the answers to lookups.
CleanStrs == /\ strs' = Emptied(strs)
             /\ UNCHANGED <<lookups, strPos, lookupPos>>

CleanAll == /\ strs' = Emptied(strs) /\ lookups' = Emptied(lookups)
            /\ UNCHANGED <<strPos, lookupPos>>

-----------------------------------------------------------------------------
(***************************************************************************)
(* The calls of the program.                                               *)
(***************************************************************************)
set_server(h) ==
    /\ h # host /\ switches < MaxSwitches
    /\ host' = h /\ hostResolved' = FALSE
    /\ CleanAll
    /\ switches' = switches + 1
    /\ moved' = (moved \/ ~Idle)
    /\ Silent
    /\ UNCHANGED <<user, sa, dns, attempts, sd, reader, cmdlist, server, sends,
                   crossed, doubt, orphaned>>

set_auth(u) ==
    /\ u # user /\ switches < MaxSwitches
    /\ user' = u
    /\ CleanAll
    /\ switches' = switches + 1
    /\ moved' = (moved \/ ~Idle)
    /\ Silent
    /\ UNCHANGED <<host, hostResolved, sa, dns, attempts, sd, reader, cmdlist, server,
                   sends, crossed, doubt, orphaned>>

Login == <<Cmd("client", Blank)>> \o (IF user = Blank THEN <<>> ELSE <<Cmd("auth", user)>>)

\* The socket is made, or the thread that resolves is started.
connect ==
    /\ IF hostResolved \/ host \in dns
       THEN LET addr == IF hostResolved THEN sa ELSE host IN
            /\ attempts' = Append(attempts,
                                   [phase |-> "connect", host |-> addr, sd |-> NewSocket])
            /\ sd' = NewSocket /\ hostResolved' = TRUE /\ sa' = addr
       ELSE /\ attempts' = Append(attempts, [phase |-> "resolve", host |-> host, sd |-> 0])
            /\ UNCHANGED <<sd, hostResolved, sa>>
    /\ UNCHANGED <<host, user, dns>>

\* The places in K, in their order.
InOrder(K) == {f \in UNION {[1..n -> K] : n \in 0..Cardinality(K)} :
                  Range(f) = K /\ \A x, y \in DOMAIN f : x < y => f[x] < f[y]}

\* What the pools answer is emitted, which sets said to the last of it.  The other commands
\* are queued, behind a login when there is no connection, and then one is begun.
try_cache_or_send_commands(cmds) ==
    LET c == [i \in DOMAIN cmds |-> Cmd(cmds[i][1], cmds[i][2])]
        hits == {i \in DOMAIN c : InCache(c[i])}
        last == c[CHOOSE i \in hits : \A j \in hits : j <= i]
    IN  /\ sends < MaxSends /\ Len(cmdlist) < MaxQueue /\ sends' = sends + 1
        /\ said' = IF hits = {} THEN Free ELSE Get(PoolFor(last.kind), Key(last))
        /\ \/ hits = DOMAIN c /\ UNCHANGED <<client, reader, cmdlist>>
           \/ /\ hits # DOMAIN c
              /\ \E places \in InOrder(DOMAIN c \ hits) :
                    cmdlist' = cmdlist \o (IF Connected THEN <<>> ELSE Login)
                                       \o [n \in DOMAIN places |-> c[places[n]]]
              /\ IF Connected THEN UNCHANGED <<client, reader>>
                 ELSE /\ waiting_banner' = TRUE
                      /\ UNCHANGED <<channel, reading_type, size_left, size_count>>
                      /\ connect
        /\ UNCHANGED <<pools, server, switches, history>>

-----------------------------------------------------------------------------
(***************************************************************************)
(* The two threads and what they call back in the main loop.               *)
(***************************************************************************)
dns_thread(i) ==
    LET a == attempts[i] IN
    /\ a.phase = "resolve"
    /\ \/ /\ dns' = dns \cup {a.host}
          /\ hostResolved' = TRUE
          /\ sa' = IF hostResolved THEN sa ELSE a.host
          /\ sd' = NewSocket
          /\ attempts' = [attempts EXCEPT
                            ![i] = [phase |-> "connect", host |-> a.host, sd |-> NewSocket]]
       \/ /\ attempts' = RemoveAt(attempts, i)
          /\ UNCHANGED <<dns, hostResolved, sa, sd>>
    /\ Silent
    /\ UNCHANGED <<host, user, reader, cmdlist, pools, server, bounds, history>>

\* on_connected makes a channel of the last socket, whichever attempt this is.
connect_thread(i) ==
    LET a == attempts[i] IN
    /\ a.phase = "connect"
    /\ attempts' = RemoveAt(attempts, i)
    /\ \/ /\ a.sd = sd /\ ~Connected
          /\ channel' = sd /\ waiting_banner' = TRUE /\ reading_type' = "line"
          /\ session' = [host |-> a.host, user |-> Blank]
          /\ \E code \in {"hello", "unavailable"} :
                wire' = <<Piece("line", code, Free)>>
          /\ orphaned' = (orphaned \/ cmdlist = <<>>)
          /\ UNCHANGED <<requests, mask, crossed>>
       \/ /\ a.sd # sd \/ Connected
          /\ crossed' = TRUE
          /\ UNCHANGED <<channel, waiting_banner, reading_type, server, orphaned>>
       \/ UNCHANGED <<channel, waiting_banner, reading_type, server, crossed, orphaned>>
    /\ Silent
    /\ UNCHANGED <<host, user, hostResolved, sa, dns, sd, size_left, size_count, cmdlist,
                   pools, bounds, moved, doubt>>

-----------------------------------------------------------------------------
(***************************************************************************)
(* The end of a connection, from the client's side (disconnect), and a     *)
(* command sent: the write may fail, which ends the connection too.        *)
(***************************************************************************)
InForce(m) == mask' = [mask EXCEPT ![session.host][session.user] = m]

\* A change of the mask was asked for and is not confirmed.
Unsure == /\ Connected /\ ~waiting_banner
          /\ cmdlist # <<>> /\ Head(cmdlist).kind = "setmask"

\* Whether the server got as far as to do what it was asked is not known.
Cut ==
    /\ cmdlist' = <<>> /\ channel' = 0 /\ sd' = 0
    /\ requests' = <<>> /\ wire' = <<>>
    /\ doubt' = (doubt \/ Unsure)
    /\ \/ mask' = mask
       \/ requests # <<>> /\ Head(requests).kind = "setmask" /\ InForce(Head(requests).arg)
    /\ UNCHANGED <<host, user, hostResolved, sa, dns, attempts, reading_type, size_left,
                   size_count, session, bounds, crossed, moved, orphaned>>

disconnect == Cut /\ Silent /\ UNCHANGED <<pools, waiting_banner>>

\* Mutant of WithQuit: the connection is left open when everything is answered.
NoQuit(cmds) == IF cmds = <<>> THEN <<Cmd("client", Blank)>> ELSE cmds

WithQuit(cmds) == IF cmds = <<>> THEN <<Cmd("quit", Blank)>> ELSE cmds

request_command(cmds) ==
    /\ cmdlist' = WithQuit(cmds)
    /\ reading_type' = "line"
    /\ requests' = Append(requests, Head(WithQuit(cmds)))
    /\ UNCHANGED <<client, channel, size_left, size_count, mask, bounds, history>>

-----------------------------------------------------------------------------
(***************************************************************************)
(* The parser.  It is at a place in the answer to the first command: the   *)
(* command's state, what it has of the answer, and how the next piece is   *)
(* to be read.  The value of this piece takes it to the next place.        *)
(***************************************************************************)
At(c) == [st |-> c.st, resp |-> c.resp, how |-> reading_type, left |-> size_left,
          count |-> size_count]

Go(st, resp, how, size) ==
    [result |-> 2,
     at |-> [st |-> st, resp |-> resp, how |-> how, left |-> size, count |-> size]]

\* Mutant of Done: the response is given away before it is emitted.
DoneWithout(at) == [result |-> 1, at |-> [at EXCEPT !.resp = NoResp]]

Done(at) == [result |-> 1, at |-> at]

Fail(at) == [result |-> 0, at |-> at]

AddDict(r) == [r EXCEPT !.dicts = Append(@, <<>>)]
AddWord(r) == [r EXCEPT !.dicts[Len(r.dicts)] = Append(@, <<>>)]
AddData(r, n) ==
    LET d == Len(r.dicts) IN [r EXCEPT !.dicts[d][Len(r.dicts[d])] = Append(@, n)]

AddLeaf(r) == [r EXCEPT !.tree[Len(r.tree)] = @ + 1]

\* Mutant of parse_code: for want of a mask the answer is read on.
parse_code_on(kind, at, value) ==
    IF value \in {"ok", "notset"} THEN Go(1, NoResp, "string", 0) ELSE Fail(at)

parse_code(kind, at, value) ==
    IF value = "ok" THEN Go(1, NoResp, "string", 0)
    ELSE IF value = "notset" /\ kind \in LookupKinds THEN Done(at) ELSE Fail(at)

parse_dict_result(kind, at, value) ==
    LET r == at.resp IN
    CASE at.st = 0 -> parse_code(kind, at, value)
      [] at.st = 1 -> Go(2, r, "string", 0)
      [] at.st = 2 -> IF value # Blank THEN Go(3, AddDict(r), "string", 0)
                      ELSE IF kind = "lookup" THEN Go(6, r, "string", 0) ELSE Done(at)
      [] at.st = 3 -> IF value = Blank THEN Go(2, r, "string", 0)
                      ELSE Go(4, AddWord(r), "size", 1)
      [] at.st = 4 -> IF value = 0 THEN Go(3, r, "string", 0)
                      ELSE Go(5, r, "size", value)
      [] at.st = 5 -> Go(4, AddData(r, at.count), "size", 1)
      [] at.st = 6 -> IF value = "d" THEN Go(8, [r EXCEPT !.type = "d"], "string", 0)
                      ELSE Go(7, [r EXCEPT !.type = value], "string", 0)
      [] at.st = 7 -> IF value = Blank THEN Done(at)
                      ELSE Go(7, [r EXCEPT !.words = @ + 1], "string", 0)
      [] at.st = 8 -> IF value = Blank THEN Done(at)
                      ELSE Go(9, [r EXCEPT !.tree = Append(@, 0)], "string", 0)
      [] OTHER -> IF value = Blank THEN Go(8, r, "string", 0)
                  ELSE Go(9, AddLeaf(r), "string", 0)

parse_wordlist(kind, at, value) ==
    IF at.st = 0 THEN parse_code(kind, at, value)
    ELSE IF value = Blank THEN Done(at)
    ELSE Go(1, [at.resp EXCEPT !.words = @ + 1], "string", 0)

parse_command(kind, at, value) ==
    CASE kind \in LookupKinds -> parse_dict_result(kind, at, value)
      [] kind \in ListKinds -> parse_wordlist(kind, at, value)
      [] kind \in StrKinds -> IF at.st = 0 THEN parse_code(kind, at, value) ELSE Done(at)
      [] kind = "quit" -> Fail(at)
      [] OTHER -> IF value = "ok" THEN Done(at) ELSE Fail(at)

-----------------------------------------------------------------------------
(***************************************************************************)
(* An answer read by itself: the places the parser comes to.               *)
(***************************************************************************)
Begun == Go(1, NoResp, "string", 0).at

Onward(kind, at, value) ==
    IF at.how = "size" /\ at.left > 1
    THEN [result |-> 2, at |-> [at EXCEPT !.left = @ - 1]]
    ELSE parse_command(kind, at, value)

\* Before each piece of body the parser is ready for it, it is done with the last one and
\* not before, and has then got the answer in the structure it was sent in.
ReadsTo(run, kind, body, shape) ==
    /\ Len(body) \in Nat \ {0} /\ DOMAIN body = 1..Len(body)
    /\ run[1] = Begun
    /\ \A k \in 1..Len(body) :
          /\ body[k][1] = run[k].how
          /\ IF k < Len(body)
             THEN Onward(kind, run[k], body[k][2]) = [result |-> 2, at |-> run[k + 1]]
             ELSE /\ Onward(kind, run[k], body[k][2]) = Done(run[k])
                  /\ run[k].st > 0 /\ run[k].resp = shape

Run(kind, body) ==
    LET at[k \in 1..Len(body)] ==
            IF k = 1 THEN Begun ELSE Onward(kind, at[k - 1], body[k - 1][2]).at
    IN  at

Readable(kind, shape) ==
    ReadsTo(Run(kind, Body(kind, shape)), kind, Body(kind, shape), shape)

\* The answers to lookups that are considered can be read, each by itself.
ASSUME ShapesAssumption == \A kind \in LookupKinds : \A shape \in Shapes(kind) : Readable(kind, shape)

-----------------------------------------------------------------------------
(***************************************************************************)
(* on_io_in_event, one turn of its loop.                                   *)
(***************************************************************************)
\* A command is answered: its answer is emitted and kept.
Answered(c) ==
    /\ said' = IF c.st > 0 THEN Answer(c) ELSE Free
    /\ IF c.st > 0 /\ c.kind \in LookupKinds THEN SaveLookup(c)
       ELSE IF c.st > 0 /\ c.kind \in StrKinds THEN SaveStr(c)
       ELSE IF c.kind = "setmask"
            THEN /\ strs' = Without(strs, <<"getdictmask", Blank>>) /\ lookups' = Emptied(lookups)
                 /\ UNCHANGED <<strPos, lookupPos>>
       ELSE UNCHANGED pools

parse_banner(p) ==
    /\ waiting_banner
    /\ waiting_banner' = FALSE
    /\ IF p.value # "hello" THEN Cut
       ELSE wire' = Tail(wire) /\ request_command(cmdlist) /\ UNCHANGED session
    /\ Silent /\ UNCHANGED pools

parse(p) ==
    LET c == Head(cmdlist)
        next == parse_command(c.kind, At(c), p.value)
        heard == [kind |-> c.kind, arg |-> c.arg, st |-> next.at.st, resp |-> next.at.resp,
                  tags |-> c.tags \cup {p.tag}]
    IN  /\ ~waiting_banner
        /\ \/ next.result = 0 /\ disconnect
           \/ /\ next.result = 1
              /\ Answered(heard)
              /\ wire' = Tail(wire)
              /\ request_command(Tail(cmdlist))
              /\ UNCHANGED <<waiting_banner, session>>
           \/ /\ next.result = 2
              /\ cmdlist' = [cmdlist EXCEPT ![1] = heard]
              /\ reading_type' = next.at.how
              /\ size_left' = next.at.left /\ size_count' = next.at.count
              /\ wire' = Tail(wire)
              /\ Silent
              /\ UNCHANGED <<client, channel, waiting_banner, pools, requests, session,
                             mask, bounds, history>>

\* What is read by length comes in any number of parts.
ReadPart ==
    /\ reading_type = "size" /\ size_left > 1
    /\ size_left' = size_left - 1 /\ wire' = Tail(wire)
    /\ Silent
    /\ UNCHANGED <<client, channel, waiting_banner, reading_type, size_count, cmdlist, pools,
                   requests, session, mask, bounds, history>>

on_io_in_event ==
    /\ Connected /\ wire # <<>> /\ Head(wire).how = reading_type
    /\ \/ ReadPart
       \/ /\ reading_type = "size" => size_left = 1
          /\ parse_banner(Head(wire)) \/ parse(Head(wire))

\* An error or the end of the stream, which the server may cause at any time; also a write
\* that failed.
on_io_error == Connected /\ disconnect

-----------------------------------------------------------------------------
(***************************************************************************)
(* The server answers what it was sent.                                    *)
(***************************************************************************)
Codes(c) == IF c.kind = "quit" THEN {"goodbye"}
            ELSE {"ok", "error"} \cup (IF c.kind \in LookupKinds THEN {"notset"} ELSE {})

Serve ==
    LET c == Head(requests) IN
    /\ requests # <<>>
    /\ requests' = Tail(requests)
    /\ \E code \in Codes(c), shape \in Shapes(c.kind) :
        /\ wire' = wire \o Pieces(code, IF code = "ok" THEN Body(c.kind, shape) ELSE <<>>,
                                  Tag(c, shape))
        /\ IF code = "ok" /\ c.kind = "setmask" THEN InForce(c.arg) ELSE mask' = mask
        /\ session' = IF code = "ok" /\ c.kind = "auth" THEN [session EXCEPT !.user = c.arg]
                      ELSE session
    /\ Silent
    /\ UNCHANGED <<client, reader, cmdlist, pools, bounds, history>>

-----------------------------------------------------------------------------
Init ==
    /\ host = (CHOOSE h \in Hosts : TRUE) /\ user = Blank /\ hostResolved = FALSE /\ sa = Blank /\ dns = {}
    /\ attempts = <<>> /\ sd = 0 /\ channel = 0
    /\ waiting_banner = FALSE /\ reading_type = "line" /\ size_left = 0 /\ size_count = 0
    /\ cmdlist = <<>> /\ said = Free
    /\ strs = [i \in 1..StrPool |-> Free] /\ strPos = 1
    /\ lookups = [i \in 1..LookupPool |-> Free] /\ lookupPos = 1
    /\ requests = <<>> /\ wire = <<>> /\ session = [host |-> host, user |-> Blank]
    /\ mask = [h \in Hosts |-> [u \in Users \cup {Blank} |-> CHOOSE m \in Masks : TRUE]]
    /\ sends = 0 /\ switches = 0 /\ crossed = FALSE /\ moved = FALSE /\ doubt = FALSE
    /\ orphaned = FALSE

User == \/ \E h \in Hosts : set_server(h)
        \/ \E u \in Users : set_auth(u)
        \/ \E s \in Sends : try_cache_or_send_commands(s)

Threads == \E i \in DOMAIN attempts : dns_thread(i) \/ connect_thread(i)

System == Threads \/ on_io_in_event \/ Serve

Next == ~crossed /\ (User \/ System \/ on_io_error)

Spec == Init /\ [][Next]_vars /\ WF_vars(~crossed /\ System)

-----------------------------------------------------------------------------
(***************************************************************************)
(* Properties.                                                             *)
(***************************************************************************)
\* Client and server never lose step: as long as a connection stands there is a command the
\* next piece belongs to, the server has either to answer it or is answering it, and what
\* comes next is read the way it was written.  parse takes cmdlist.front() and the reading
\* type unchecked.
InStep ==
    ~crossed /\ Connected /\ ~waiting_banner =>
        /\ cmdlist # <<>>
        /\ (requests = <<>>) # (wire = <<>>)
        /\ requests # <<>> => Len(requests) = 1 /\ Key(Head(requests)) = Key(Head(cmdlist))
                              /\ Head(cmdlist).st = 0
        /\ wire # <<>> => Head(wire).how = reading_type
                          /\ \A i \in DOMAIN wire : wire[i].tag.key = Key(Head(cmdlist))

\* What is emitted for a command, from the server or from a pool, is the answer to this
\* command, of one server in one piece and in the structure it was sent in.
AnswersExact ==
    said # Free =>
        \E t \in said.tags : said.tags = {t} /\ t.key = said.key /\ t.shape = said.got

\* The pools only answer what the server would answer.  There are three ways to spoil this:
\* to name another server or user while commands wait or are under way (moved), to lose the
\* connection before a change of the mask is confirmed (doubt), and to have a connection
\* come up that no command waits for, over which the next ones go without a login
\* (orphaned).
Current(e) == \A t \in e.tags : /\ t.host = host /\ t.user = user
                                /\ t.mask = mask[host][user]
CacheFresh ==
    ~moved /\ ~doubt /\ ~orphaned /\ ~Unsure =>
        /\ \A i \in DOMAIN lookups : Current(lookups[i])
        /\ \A i \in DOMAIN strs : strs[i].key[1] = "getdictmask" => Current(strs[i])

\* A connection that was begun ends, with everything answered and "quit" said or by a
\* failure: no exchange of messages is left waiting for a piece that never comes.
ComesToRest == (Connected \/ Pending) ~> (crossed \/ AtRest)

=============================================================================
