--------------------------- MODULE MCRevenueReport ---------------------------
(* The instance of RevenueReport that TLC checks. *)
EXTENDS RevenueReport

\* 2023-12-31T23:00Z, 2024-02-29T00:00Z (a leap day) and 2024-03-01T00:00Z.
MCOccurredAt == [p1 |-> 473351, p2 |-> 474768, p3 |-> 474792]

\* 2024-03-10T12:00Z.
MCNow == 475020

\* SUCCEEDED is an operator's spelling of succeeded; paid is a status nobody mapped.
MCFolded == [succeeded |-> "succeeded", SUCCEEDED |-> "succeeded", paid |-> "paid"]

\* As prisma/seed.ts leaves the table.
MCSeeds == [succeeded |-> "collected", SUCCEEDED |-> Unmapped, paid |-> Unmapped]

\* The last thirty days; from the instant of p1 to that of p3; an empty range.
MCQueries == {[from |-> Absent, to |-> Absent], [from |-> 473351, to |-> 474792],
              [from |-> 475020, to |-> Absent]}

MCPayments    == DOMAIN MCOccurredAt
MCRawStatuses == DOMAIN MCFolded

=============================================================================
