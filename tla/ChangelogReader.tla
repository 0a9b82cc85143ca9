--------------------------- MODULE ChangelogReader ---------------------------
(***************************************************************************)
(* Changelog Reader: a consumer polls Datastore.ReadChanges               *)
(* (sqlserver.go 743-838) with the token of its previous call, while       *)
(* Write calls commit changelog rows.                                      *)
(*                                                                         *)
(* One ReadChanges is one SELECT of the committed changelog rows whose     *)
(* inserted_at is at least HorizonOffset old, ORDER BY ulid, after the     *)
(* token (sqlcommon.AddFromUlid), TOP PageSize (no extra row).  It returns *)
(* the rows and the ULID of the last one as token, or NotFound when no row *)
(* qualifies; the consumer then keeps its token and polls again.           *)
(*                                                                         *)
(* The consumer reads ascending or, with SortDesc, descending (ORDER BY    *)
(* ulid desc, rows before the token), with or without an object-type      *)
(* filter; both stay fixed for its token.                                  *)
(*                                                                         *)
(* inserted_at is the server clock at the INSERT INTO changelog statement  *)
(* (TupleWrite's `at`), not at commit.                                     *)
(***************************************************************************)
EXTENDS TupleWrite

CONSTANTS
    Horizon,        \* filter.HorizonOffset, in clock units
    ChangesPage,    \* Pagination.PageSize of ReadChanges
    FromInclusive,  \* AddFromUlid resumes with ulid >= From (else ulid > From)
    ObjectTypeOf,   \* key -> object type of its tuple
    ObjectTypeFilters, \* filter.ObjectType values; "" is no filter
    NoToken         \* the empty continuation token ""

ASSUME Horizon \in Nat /\ ChangesPage \in Nat \ {0} /\ FromInclusive \in BOOLEAN

VARIABLES
    ctoken,     \* the consumer's continuation token
    delivered,  \* ULIDs of the changes ReadChanges has returned
    again,      \* some change was returned twice
    answer,     \* what the last ReadChanges returned: "none", "ok", "NotFound"
    desc,       \* options.SortDesc of the consumer
    otype,      \* filter.ObjectType of the consumer
    start       \* history: ULIDs the consumer could read at its first call

readerVars == <<ctoken, delivered, again, answer, desc, otype, start>>
allVars == <<vars, readerVars>>

-----------------------------------------------------------------------------

\* Mutant: the cursor always resumes inclusively (>= ascending, <=
\* descending).
AddFromUlidInclusive(rows, from) ==
    {e \in rows : IF desc THEN ~UlidLess(from, e.ulid) ELSE ~UlidLess(e.ulid, from)}

\* Mutant: the cursor ignores SortDesc and always resumes after From.
AddFromUlidAscOnly(rows, from) ==
    {e \in rows : IF FromInclusive THEN ~UlidLess(e.ulid, from)
                                   ELSE UlidLess(from, e.ulid)}

\* sqlcommon.AddFromUlid: the rows after the token in the sort order.
AddFromUlid(rows, from) ==
    {e \in rows : LET before == IF desc THEN UlidLess(e.ulid, from)
                                        ELSE UlidLess(from, e.ulid)
                 IN  before \/ (FromInclusive /\ e.ulid = from)}

\* The committed rows at least Horizon old, of the filter's object type.
ChangesVisible(log, t) ==
    {log[i] : i \in {j \in DOMAIN log : /\ log[j].at <= t - Horizon
                                        /\ otype \in {"", ObjectTypeOf[log[j].key]}}}

\* The SELECT of ReadChanges: the visible rows after the token, the first
\* ChangesPage of them by ULID, ascending or descending.
ChangesQuery(log, from, t) ==
    LET rows == IF from = NoToken THEN ChangesVisible(log, t) ELSE AddFromUlid(ChangesVisible(log, t), from)
        seq  == SetToSortSeq(rows, LAMBDA a, b : IF desc THEN UlidLess(b.ulid, a.ulid)
                                                         ELSE UlidLess(a.ulid, b.ulid))
    IN  SubSeq(seq, 1, Min({Len(seq), ChangesPage}))

ReaderInit ==
    /\ Init
    /\ ctoken = NoToken
    /\ delivered = {}
    /\ again = FALSE
    /\ answer = "none"
    /\ desc \in BOOLEAN
    /\ otype \in ObjectTypeFilters
    /\ start = {}

\* ReadChanges with the consumer's token: NotFound on no rows, else the
\* rows and the last row's ULID, which the consumer keeps as its token.
ReadChanges ==
    LET page == ChangesQuery(changelog, ctoken, clock)
        ids  == {page[i].ulid : i \in DOMAIN page}
    IN
    /\ start' = IF ctoken = NoToken THEN {e.ulid : e \in ChangesVisible(changelog, clock)}
                                    ELSE start
    /\ \/ /\ page = <<>>
          /\ answer' = "NotFound"
          /\ UNCHANGED <<vars, ctoken, delivered, again, desc, otype>>
       \/ /\ page # <<>>
          /\ answer' = "ok"
          /\ ctoken' = page[Len(page)].ulid
          /\ delivered' = delivered \cup ids
          /\ again' = (again \/ delivered \cap ids # {})
          /\ UNCHANGED <<vars, desc, otype>>

WriterStep == Next /\ UNCHANGED readerVars

ReaderNext == ReadChanges \/ WriterStep

-----------------------------------------------------------------------------
(* Properties *)

\* A consumer that always passes back the token of its last ReadChanges is
\* never given the same change twice, although the token is the ULID of a
\* row it has already been given (no PageSize+1 row, sqlserver.go 776).
ChangesDeliveredOnce == ~again

\* A consumer misses no change: every committed changelog row below its
\* token has been returned to it.  The horizon (sqlserver.go 766) is meant
\* to keep rows of in-flight txns out of reach until they are visible.
NoChangeSkipped ==
    \A i \in DOMAIN changelog :
        /\ ~desc /\ ctoken # NoToken /\ UlidLess(changelog[i].ulid, ctoken)
        /\ otype \in {"", ObjectTypeOf[changelog[i].key]}
        => changelog[i].ulid \in delivered

\* A descending listing that has reached NotFound has returned every change
\* of its filter that was visible at its first call, although the token
\* moves downwards while Write calls commit newer and older changes.
DescListComplete ==
    desc /\ answer = "NotFound" /\ ctoken # NoToken => start \subseteq delivered

=============================================================================
