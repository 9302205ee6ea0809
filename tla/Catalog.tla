------------------------------ MODULE Catalog ------------------------------
(***************************************************************************)
(* The tools of the MCP servers: how the supervisor lists them, page by    *)
(* page, before its session takes a prompt, and how an agent searches them *)
(* and follows a search's cursor (MCPRegistry). What a server answers is   *)
(* not ours: a page, a cursor that is new or repeats, an error.            *)
(***************************************************************************)
EXTENDS Integers, Sequences, FiniteSets

CONSTANTS Servers,      \* 1 .. n, in the order of the configuration
          Tools,        \* the normalised names, numbered in their order
          Cursors,      \* what a server may give as its next cursor
          Queries,      \* what agents search for
          Score(_, _),  \* a query's score for a tool, 0 when it does not match
          MaxPages,     \* MAX_MCP_DISCOVERY_PAGES
          MaxSize       \* MAX_MCP_CATALOG_BYTES, counted in tools and cursors

VARIABLES
    listing,  \* discovery: "idle", "listing" or "known"
    server,   \* the server being listed
    pages,    \* the pages it has been asked for
    cursors,  \* the cursors it gave
    size,     \* catalog_bytes
    catalog,  \* discover's catalog, as pairs of a tool and its server
    walk,     \* an agent's search: its query, its server, or 0, and its matches
    cursor,   \* the next_cursor the agent got last, or NoCursor
    reported, \* auxiliary: the pairs the servers reported
    ended     \* auxiliary: the servers whose listing came to its end

listVars == <<listing, server, pages, cursors, size, catalog, reported, ended>>
searchVars == <<walk, cursor>>
catalogVars == <<listVars, searchVars>>
----------------------------------------------------------------------------
NoCursor == [query |-> 0, server |-> 0, offset |-> 0]
NoWalk == [query |-> 0, server |-> 0, got |-> <<>>]

InitCatalog ==
    /\ listing = "idle" /\ server = 1 /\ pages = 0 /\ cursors = {}
    /\ size = 0 /\ catalog = {}
    /\ walk = NoWalk /\ cursor = NoCursor
    /\ reported = {} /\ ended = {}

\* discover begins with nothing, whatever an earlier attempt had found.
Discover ==
    /\ listing = "idle"
    /\ listing' = "listing"
    /\ UNCHANGED <<server, pages, cursors, size, catalog, reported, ended, searchVars>>

\* catalog_bytes with a page and its cursor.
SizeWith(tools, next) == size + Cardinality(tools) + (IF next = "end" THEN 0 ELSE 1)

\* A name that is taken, a limit, or a cursor that repeats.
Refused(tools, next) ==
    \/ \E t \in tools, s \in Servers : <<t, s>> \in catalog
    \/ SizeWith(tools, next) > MaxSize
    \/ next \in cursors
    \/ next # "end" /\ pages + 1 = MaxPages

\* list_tools answers: its tools are added, and the next page or server is asked for.
Page(tools, next) ==
    /\ listing = "listing"
    /\ ~Refused(tools, next)
    /\ catalog' = catalog \union {<<t, server>> : t \in tools}
    /\ size' = SizeWith(tools, next)
    /\ reported' = reported \union {<<t, server>> : t \in tools}
    /\ ended' = IF next = "end" THEN ended \union {server} ELSE ended
    /\ IF next = "end" \/ pages + 1 = MaxPages
         THEN /\ pages' = 0 /\ cursors' = {}
              /\ server' = server + 1
              /\ listing' = IF server + 1 \in Servers THEN "listing" ELSE "known"
         ELSE /\ pages' = pages + 1 /\ cursors' = cursors \union {next}
              /\ UNCHANGED <<server, listing>>
    /\ UNCHANGED searchVars

\* An answer that is refused, or no answer: nothing of this discovery is kept.
DiscoveryFails ==
    /\ listing = "listing"
    /\ listing' = "idle"
    /\ server' = 1 /\ pages' = 0 /\ cursors' = {} /\ size' = 0 /\ catalog' = {}
    /\ reported' = {} /\ ended' = {}
    /\ UNCHANGED searchVars
----------------------------------------------------------------------------
\* The tools that match, on one server or, for 0, on all: the best first, then by name.
\* The one in place i has i - 1 better ones.
Ranked(q, s) ==
    LET matches == {t \in Tools : Score(q, t) > 0
                         /\ \E of \in Servers : <<t, of>> \in catalog /\ s \in {0, of}}
        better(t) == {u \in matches : \/ Score(q, u) > Score(q, t)
                                      \/ Score(q, u) = Score(q, t) /\ u < t}
    IN [i \in 1 .. Cardinality(matches) |->
           CHOOSE t \in matches : Cardinality(better(t)) = i - 1]

\* A mutant of the next definition: a cursor is not bound to its server.
CursorFitsQuery(c, q, s) == c.query = q

\* The signature of a cursor covers the query, the server and the offset.
CursorFits(c, q, s) == c.query = q /\ c.server = s

\* search, with the cursor the agent has or without one.
Search(q, s, limit, from) ==
    /\ listing = "known"
    /\ from # NoCursor => CursorFits(from, q, s)
    /\ LET ranked == Ranked(q, s)
           until == IF from.offset + limit < Len(ranked) THEN from.offset + limit ELSE Len(ranked)
           matches == SubSeq(ranked, from.offset + 1, until)
           before == IF from # NoCursor /\ walk.query = q /\ walk.server = s
                     THEN walk.got ELSE <<>>
       IN /\ walk' = [query |-> q, server |-> s, got |-> before \o matches]
          /\ cursor' = IF until < Len(ranked)
                         THEN [query |-> q, server |-> s, offset |-> until] ELSE NoCursor
    /\ UNCHANGED listVars

NextCatalog ==
    \/ Discover \/ DiscoveryFails
    \/ \E tools \in SUBSET Tools, next \in Cursors \union {"end"} : Page(tools, next)
    \/ \E q \in Queries, s \in Servers \union {0}, limit \in {1, 2},
          from \in {NoCursor, cursor} : Search(q, s, limit, from)
----------------------------------------------------------------------------
\* A session that starts knows every tool its servers report: a listing that is cut off
\* by a limit, a repeated cursor or an error is never taken for a whole one.
CatalogIsWhole ==
    listing = "known" => catalog = reported /\ ended = Servers

\* An agent that follows a search's cursor to its end, with any limits, has every match
\* once, the best first; a cursor of another search cannot be mixed in.
MatchesOnce ==
    walk # NoWalk /\ cursor = NoCursor => walk.got = Ranked(walk.query, walk.server)
=============================================================================
