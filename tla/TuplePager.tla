----------------------------- MODULE TuplePager -----------------------------
(***************************************************************************)
(* Cursor Pager: a caller scans the tuple table with Datastore.ReadPage    *)
(* (sqlserver.go 176-227), page after page, while Write calls commit.      *)
(*                                                                         *)
(* Each ReadPage is one SELECT of the committed rows matching the filter,  *)
(* ORDER BY ulid, with ulid >= From when a token is given and TOP          *)
(* PageSize+1; SQLTupleIterator.ToArray (sqlcommon, spec 4.6) returns the  *)
(* first PageSize rows and, when the extra row came back, its ULID as the  *)
(* continuation token.  The caller passes the token back until there is    *)
(* none.  A SELECT sees committed rows only (READ COMMITTED), so it is one *)
(* atomic read of `tuples`.                                                *)
(*                                                                         *)
(* A row is <<key, ulid>>: re-writing a key makes a new row.  TupleKeyOf      *)
(* gives each key its columns; a user is stored as the string tupleUtils   *)
(* builds, a sequence of characters, as the userset reads match it with    *)
(* SQL LIKE patterns.  The three reads without a cursor (ReadUserTuple,    *)
(* ReadUsersetTuples, ReadStartingWithUser) are operators on the table,    *)
(* checked against what they should return in every reachable state.      *)
(***************************************************************************)
EXTENDS TupleWrite

CONSTANTS
    PageSize,   \* Pagination.PageSize
    TupleKeyOf,    \* key -> [objectType, objectID, relation, user]
    Filters,    \* ReadPage tupleKey filters; "" and <<>> are unset fields
    UsersetFilters,       \* ReadUsersetTuplesFilter inputs
    StartingWithFilters,  \* ReadStartingWithUserFilter inputs
    NoToken     \* the empty continuation token ""

ASSUME PageSize \in Nat \ {0}

VARIABLES
    scan,       \* "idle", "paging" or "done"
    token,      \* Pagination.From of the next ReadPage
    filter,     \* the scan's filter
    got,        \* rows returned so far
    dup,        \* some row was returned twice
    stable      \* history: rows matching the filter present since the scan began

pagerVars == <<scan, token, filter, got, dup, stable>>
allVars == <<vars, pagerVars>>

-----------------------------------------------------------------------------

\* tupleUtils: the _user column of a user [type, id, rel, wild], e.g.
\* "group:1#member", "user:1" or "user:*".
UserString(u) ==
    u.type \o IF u.wild THEN <<":", "*">>
               ELSE <<":">> \o u.id \o (IF u.rel = <<>> THEN <<>> ELSE <<"#">> \o u.rel)

\* tupleUtils.GetUserTypeFromUser: the user_type column.
UserType(u) == IF u.wild \/ u.rel # <<>> THEN "userset" ELSE "user"

\* The WHERE of read: each field of the tupleKey that is set must match.
MatchesTupleKey(t, f) ==
    /\ f.objectType \in {"", t.objectType}
    /\ f.objectID \in {"", t.objectID}
    /\ f.relation \in {"", t.relation}
    /\ f.user \in {<<>>, UserString(t.user)}

Present(tab) == {k \in Keys : tab[k] # NoRow}

\* The committed rows a filter selects.
RowsOf(tab, f) ==
    {<<k, tab[k].ulid>> : k \in {k \in Present(tab) : MatchesTupleKey(TupleKeyOf[k], f)}}

ByUlid(a, b) == UlidLess(a[2], b[2])

\* Mutant: the scan resumes with ulid > From.
readStrict(tab, f, from) ==
    LET rows == {r \in RowsOf(tab, f) : from = NoToken \/ UlidLess(from, r[2])}
        seq  == SetToSortSeq(rows, ByUlid)
    IN  SubSeq(seq, 1, Min({Len(seq), PageSize + 1}))

\* read with options: rows of the filter, ORDER BY ulid, ulid >= From,
\* OFFSET 0 ROWS FETCH NEXT PageSize+1 ROWS ONLY.
read(tab, f, from) ==
    LET rows == {r \in RowsOf(tab, f) : from = NoToken \/ ~UlidLess(r[2], from)}
        seq  == SetToSortSeq(rows, ByUlid)
    IN  SubSeq(seq, 1, Min({Len(seq), PageSize + 1}))

\* Mutant: the last returned row is the token (LIMIT PageSize, no extra row).
ToArrayLastToken(rows) ==
    IF Len(rows) >= PageSize
      THEN [page |-> SubSeq(rows, 1, PageSize), token |-> rows[PageSize][2]]
      ELSE [page |-> rows, token |-> NoToken]

\* Mutant: the token is the extra row itself rather than its ULID.
ToArrayRowToken(rows) ==
    IF Len(rows) > PageSize
      THEN [page |-> SubSeq(rows, 1, PageSize), token |-> rows[PageSize + 1]]
      ELSE [page |-> rows, token |-> NoToken]

\* ToArray: PageSize rows, and the ULID of the extra row as token.
ToArray(rows) ==
    IF Len(rows) > PageSize
      THEN [page |-> SubSeq(rows, 1, PageSize), token |-> rows[PageSize + 1][2]]
      ELSE [page |-> rows, token |-> NoToken]

\* ReadUserTuple: the row with every column of the key, user_type
\* included, or ErrNotFound (NoRow); only its condition is returned.
ReadUserTuple(tab, tk) ==
    LET ks == {k \in Present(tab) :
                 /\ TupleKeyOf[k].objectType = tk.objectType
                 /\ TupleKeyOf[k].objectID = tk.objectID
                 /\ TupleKeyOf[k].relation = tk.relation
                 /\ UserString(TupleKeyOf[k].user) = UserString(tk.user)
                 /\ UserType(TupleKeyOf[k].user) = UserType(tk.user)}
    IN  IF ks = {} THEN NoRow ELSE tab[CHOOSE k \in ks : TRUE].cond

RECURSIVE Like(_, _)
\* SQL Server LIKE: "%" matches any run of characters, "_" any one.
Like(s, pat) ==
    IF pat = <<>> THEN s = <<>>
    ELSE IF Head(pat) = "%"
      THEN \E i \in 0..Len(s) : Like(SubSeq(s, i + 1, Len(s)), Tail(pat))
    ELSE /\ s # <<>>
         /\ Head(pat) \in {"_", Head(s)}
         /\ Like(Tail(s), Tail(pat))

\* One AllowedUserTypeRestriction: a relation reference becomes
\* _user LIKE 'type:%#relation', a wildcard _user = 'type:*', a plain
\* type nothing.
RestrictionMatches(user, a) ==
    \/ a.kind = "relation" /\ Like(user, a.type \o <<":", "%", "#">> \o a.rel)
    \/ a.kind = "wildcard" /\ user = a.type \o <<":", "*">>

\* Mutant: the user_type = userset condition is dropped.
ReadUsersetTuplesAnyUserType(tab, f) ==
    {k \in Present(tab) :
        LET t == TupleKeyOf[k] IN
        /\ f.objectType \in {"", t.objectType}
        /\ f.objectID \in {"", t.objectID}
        /\ f.relation \in {"", t.relation}
        /\ f.allowed # {} => \E a \in f.allowed : RestrictionMatches(UserString(t.user), a)}

\* ReadUsersetTuples: the userset rows of the object and relation whose
\* user satisfies one of the restrictions, when any are given.
ReadUsersetTuples(tab, f) ==
    {k \in Present(tab) :
        LET t == TupleKeyOf[k] IN
        /\ UserType(t.user) = "userset"
        /\ f.objectType \in {"", t.objectType}
        /\ f.objectID \in {"", t.objectID}
        /\ f.relation \in {"", t.relation}
        /\ f.allowed # {} => \E a \in f.allowed : RestrictionMatches(UserString(t.user), a)}

\* Mutant: the relation is appended to the object without the "#".
TargetUserNoHash(u) ==
    LET obj == UserString([u EXCEPT !.rel = <<>>]) IN obj \o u.rel

\* targetUsersArg of ReadStartingWithUser: the object, joined with "#" to
\* the relation when there is one.
TargetUser(u) ==
    LET obj == UserString([u EXCEPT !.rel = <<>>]) IN
    IF u.rel = <<>> THEN obj ELSE obj \o <<"#">> \o u.rel

\* ReadStartingWithUser: rows of the object type and relation whose user is
\* one of the targets, restricted to ObjectIDs when given (ORDER BY
\* object_id is not modelled; the result is the set of rows).
ReadStartingWithUser(tab, f) ==
    {k \in Present(tab) :
        LET t == TupleKeyOf[k] IN
        /\ t.objectType = f.objectType
        /\ t.relation = f.relation
        /\ UserString(t.user) \in {TargetUser(u) : u \in f.users}
        /\ f.objectIDs # {} => t.objectID \in f.objectIDs}

PagerInit ==
    /\ Init
    /\ scan = "idle"
    /\ token = NoToken
    /\ filter = CHOOSE f \in Filters : TRUE
    /\ got = {}
    /\ dup = FALSE
    /\ stable = {}

\* The caller starts a scan with a filter and no token.
StartScan ==
    /\ scan = "idle"
    /\ \E f \in Filters :
         /\ filter' = f
         /\ stable' = RowsOf(tuples, f)
    /\ scan' = "paging"
    /\ UNCHANGED <<vars, token, got, dup>>

\* Datastore.ReadPage: read, then iter.ToArray; the token is passed back.
ReadPage ==
    LET res == ToArray(read(tuples, filter, token)) IN
    /\ scan = "paging"
    /\ got' = got \cup ToSet(res.page)
    /\ dup' = (dup \/ got \cap ToSet(res.page) # {})
    /\ token' = res.token
    /\ scan' = IF res.token = NoToken THEN "done" ELSE "paging"
    /\ UNCHANGED <<vars, filter, stable>>

\* A step of the Write calls; rows it removes or replaces leave `stable`.
WriterStep ==
    /\ Next
    /\ stable' = stable \cap RowsOf(tuples', filter)
    /\ UNCHANGED <<scan, token, filter, got, dup>>

PagerNext == StartScan \/ ReadPage \/ WriterStep


-----------------------------------------------------------------------------
(* Properties *)

PagerTypeOK ==
    /\ scan \in {"idle", "paging", "done"}
    /\ token \in ((0..MaxTime) \X Nat) \cup {NoToken}
    /\ filter \in Filters
    /\ got \subseteq Keys \X ((0..MaxTime) \X Nat)
    /\ dup \in BOOLEAN
    /\ stable \subseteq Keys \X ((0..MaxTime) \X Nat)

\* Pagination completeness (spec 8) under concurrent writes: a finished
\* scan returned no row twice, and every row that matched the filter for
\* the whole scan was returned, whatever commits fell between the pages
\* (token = ULID of the PageSize+1-th row, resumed with ulid >= token).
PaginationComplete ==
    scan = "done" => ~dup /\ stable \subseteq got

\* Every ReadPage that is given a token and returns one moves the token
\* strictly forward, although the next page starts at the token row
\* itself (ulid >= From): the token is the row after the page.  As the
\* finitely many Write calls create finitely many ULIDs, a caller that
\* keeps calling ReadPage ends its scan.
ScanAdvances ==
    [][ReadPage => token = NoToken \/ token' = NoToken \/ UlidLess(token, token')]_allVars

\* The userset read returns exactly the userset rows of the object and
\* relation whose user has an allowed type and relation, or is an allowed
\* type's wildcard: a restriction admits usersets of exactly its type and
\* relation, as the equality of its wildcard branch does.
UsersetTuplesExact ==
    \A f \in UsersetFilters :
        ReadUsersetTuples(tuples, f) =
            {k \in Present(tuples) :
                LET t == TupleKeyOf[k] IN
                /\ t.user.wild \/ t.user.rel # <<>>
                /\ f.objectType \in {"", t.objectType}
                /\ f.objectID \in {"", t.objectID}
                /\ f.relation \in {"", t.relation}
                /\ f.allowed # {} =>
                     \E a \in f.allowed :
                        /\ t.user.type = a.type
                        /\ \/ a.kind = "relation" /\ ~t.user.wild /\ t.user.rel = a.rel
                           \/ a.kind = "wildcard" /\ t.user.wild}

\* ReadUserTuple finds a key's committed row and nothing else, and
\* ReadStartingWithUser returns the rows whose user is one of the filter's
\* users (objects or usersets), although both compare built strings.
ReadsExact ==
    /\ \A k \in Keys :
         ReadUserTuple(tuples, TupleKeyOf[k]) = IF tuples[k] = NoRow THEN NoRow ELSE tuples[k].cond
    /\ \A f \in StartingWithFilters :
         ReadStartingWithUser(tuples, f) =
            {k \in Present(tuples) :
                /\ TupleKeyOf[k].objectType = f.objectType
                /\ TupleKeyOf[k].relation = f.relation
                /\ TupleKeyOf[k].user \in f.users
                /\ f.objectIDs # {} => TupleKeyOf[k].objectID \in f.objectIDs}

=============================================================================
