--------------------------- MODULE MonthlyReports ---------------------------
(***************************************************************************)
(* The executive report of a month.  internal-bll makes it for whoever     *)
(* asks: the worker's hourly check, the worker's consumer of requests, or  *)
(* somebody at the portal.  It reads the figures of the moment, uploads    *)
(* two files to Nextcloud and then saves a row with the same contents;     *)
(* the database keeps the first row of a month, the files are those of the *)
(* last upload, and none of the steps waits for another generation.        *)
(*                                                                         *)
(* The figures are a version of the books, and whether every call that     *)
(* they need was answered.                                                 *)
(***************************************************************************)
EXTENDS Integers, FiniteSets

CONSTANTS Months,        \* 1..n
          MaxFigures,    \* changes of the books
          MaxFaults,     \* failed calls, restarts
          MaxMade        \* generations begun

VARIABLES
    db,        \* "postgres" or "memory": what workforce-api stores rows in
    month,     \* the present one
    figures,   \* version of the books
    asked,     \* requests in the worker's queue, the one at work included
    maker,     \* the generation under way for each of those who ask
    row, files,
    announced, \* months whose report was announced as archived
    tale,      \* history: what went wrong with each month's report
    faults, made

reportVars == <<db, month, figures, asked, maker, row, files, announced, tale, faults,
                made>>

Askers == {"ticker", "consumer", "portal"}
Formats == {"pdf", "csv"}
Figure == [version: 0..MaxFigures, whole: BOOLEAN]
NoFigure == [version |-> 0, whole |-> FALSE]
Idle == [at |-> "idle", period |-> 1, got |-> NoFigure]
NoFile == [there |-> FALSE, of |-> NoFigure]
NoRow == [is |-> "none", of |-> NoFigure]
MaxAsked == 1

ReportTypeOK ==
    /\ db \in {"postgres", "memory"} /\ month \in Months
    /\ figures \in 0..MaxFigures /\ asked \in 0..MaxAsked /\ faults \in 0..MaxFaults
    /\ made \in 0..MaxMade
    /\ maker \in [Askers -> [at: {"idle", "figures", "pdf", "csv", "save", "announce"},
                             period: Months, got: Figure]]
    /\ row \in [Months -> [is: {"none", "seeded", "saved"}, of: Figure]]
    /\ files \in [Months -> [Formats -> [there: BOOLEAN, of: Figure]]]
    /\ announced \in SUBSET Months
    /\ tale \in [Months -> [lost: SUBSET Formats, overlap: BOOLEAN, cut: BOOLEAN,
                            blind: BOOLEAN, kept: BOOLEAN, again: SUBSET Askers]]

(* The memory store and the development database start with the report of  *)
(* a month that has numbers and no contents.                               *)
seedExecutiveReports(m) == IF m = 1 THEN [NoRow EXCEPT !.is = "seeded"] ELSE NoRow

ReportInit ==
    /\ db \in {"postgres", "memory"}
    /\ month = 1 /\ figures = 0 /\ asked = 0 /\ faults = 0 /\ made = 0
    /\ maker = [a \in Askers |-> Idle]
    /\ \/ row = [m \in Months |-> seedExecutiveReports(m)]
       \/ db = "postgres" /\ row = [m \in Months |-> NoRow]
    /\ files = [m \in Months |-> [f \in Formats |-> NoFile]]
    /\ announced = {}
    /\ tale = [m \in Months |-> [lost |-> {}, overlap |-> FALSE, cut |-> FALSE,
                                 blind |-> FALSE, kept |-> FALSE, again |-> {}]]

Fault == faults < MaxFaults /\ faults' = faults + 1
At(a, m) == maker[a].at # "idle" /\ maker[a].period = m
Quiet(m) == \A a \in Askers : ~At(a, m)
Goes(a, to) == maker' = [maker EXCEPT ![a].at = to]

-----------------------------------------------------------------------------
(* Who asks.  A generation begins, next to any other of the same month. *)
Begin(a, m) ==
    /\ maker[a].at = "idle"
    /\ made < MaxMade /\ made' = made + 1
    /\ maker' = [maker EXCEPT ![a] = [Idle EXCEPT !.at = "figures", !.period = m]]
Noted(m, blind) ==
    tale' = [tale EXCEPT ![m].overlap = @ \/ ~Quiet(m), ![m].blind = @ \/ blind]

GetExecutiveReportByID(m) == row[m].is # "none"
GetExecutiveReportByPeriod(m) == row[m].is # "none"

(* A failed call counts as no report. *)
CheckExecutiveReport(m, failed) == ~failed /\ GetExecutiveReportByPeriod(m)

(* Every hour: the report of the present month, unless it is there. *)
StartExecutiveReportingWorker ==
    \E failed \in BOOLEAN :
        /\ ~CheckExecutiveReport(month, failed)
        /\ Begin("ticker", month) /\ Noted(month, failed)
        /\ IF failed THEN Fault ELSE UNCHANGED faults
        /\ UNCHANGED <<db, month, figures, asked, row, files, announced>>

(* The consumer looks for the period beside the payload of the envelope    *)
(* and finds none: it makes the report of the present month, whichever was *)
(* asked for.                                                              *)
HandleExecutiveReportTrigger ==
    /\ asked > 0
    /\ Begin("consumer", month) /\ Noted(month, FALSE)
    /\ UNCHANGED <<db, month, figures, asked, row, files, announced, faults>>

generateMonthlyReport(m) ==
    /\ Begin("portal", m) /\ Noted(m, FALSE)
    /\ UNCHANGED <<db, month, figures, asked, row, files, announced, faults>>

(* The request is published, if the broker takes it, and carried out all   *)
(* the same.                                                               *)
TriggerMonthlyReport(m) ==
    /\ asked' \in {asked, asked + 1} /\ asked' <= MaxAsked
    /\ Begin("portal", m) /\ Noted(m, FALSE)
    /\ UNCHANGED <<db, month, figures, row, files, announced, faults>>

-----------------------------------------------------------------------------
(* GenerateMonthlyReport.  It ends without a report when an error is       *)
(* returned; a request of the queue is then delivered again.               *)
Fails(a) ==
    /\ maker' = [maker EXCEPT ![a] = Idle]
    /\ tale' = [tale EXCEPT ![maker[a].period].cut = @ \/ maker[a].at # "figures"]

(* Without its accounts there is no report; what workforce does not answer *)
(* counts as nothing.                                                      *)
NoAccounts(a) == Fails(a) /\ Fault
buildWorkforceMetrics(answered) == [version |-> figures, whole |-> answered]
GetFinancialMetrics(a) ==
    /\ maker[a].at = "figures"
    /\ \/ /\ \E answered \in BOOLEAN :
                /\ maker' = [maker EXCEPT ![a].got = buildWorkforceMetrics(answered),
                                          ![a].at = "pdf"]
                /\ IF answered THEN UNCHANGED faults ELSE Fault
          /\ UNCHANGED tale
       \/ NoAccounts(a)
    /\ UNCHANGED <<db, month, figures, asked, row, files, announced, made>>

(* An upload replaces the file; its failure is ignored. *)
UploadWebDAVFile(m, f, fig) == files' = [files EXCEPT ![m][f] = [there |-> TRUE, of |-> fig]]
ArchiveComplianceReport(a, f, next) ==
    LET m == maker[a].period IN
    /\ maker[a].at = f /\ Goes(a, next)
    /\ \/ /\ UploadWebDAVFile(m, f, maker[a].got)
          /\ UNCHANGED <<tale, faults>>
       \/ /\ Fault
          /\ tale' = [tale EXCEPT ![m].lost = @ \cup {f}]
          /\ UNCHANGED files
    /\ UNCHANGED <<db, month, figures, asked, row, announced, made>>

(* The database refuses a second row of a month, the memory store replaces *)
(* it.                                                                     *)
Replaced(fig) == [is |-> "saved", of |-> fig]
Inserted(m, fig) == IF row[m].is = "none" THEN Replaced(fig) ELSE row[m]

(* The row is saved, or the one that is there answers for it; when neither *)
(* call gets through, the generation fails.                                *)
CreateExecutiveReport(a) ==
    LET m == maker[a].period IN
    /\ maker[a].at = "save"
    /\ \/ /\ row' = [row EXCEPT ![m] = IF db = "memory" THEN Replaced(maker[a].got)
                                       ELSE Inserted(m, maker[a].got)]
          /\ tale' = [tale EXCEPT ![m].again = IF row[m].is = "none" THEN @ ELSE @ \cup {a}]
          /\ Goes(a, "announce") /\ UNCHANGED faults
       \/ /\ Fault /\ GetExecutiveReportByID(m)
          /\ tale' = [tale EXCEPT ![m].again = @ \cup {a}, ![m].kept = TRUE]
          /\ Goes(a, "announce") /\ UNCHANGED row
       \/ Fault /\ Fails(a) /\ UNCHANGED row
    /\ UNCHANGED <<db, month, figures, asked, files, announced, made>>

(* Announced, unless the broker fails; the consumer's own announcement is  *)
(* part of handling the request.                                           *)
Announce(a) ==
    /\ maker[a].at = "announce"
    /\ maker' = [maker EXCEPT ![a] = Idle]
    /\ \/ /\ announced' = announced \cup {maker[a].period}
          /\ asked' = IF a = "consumer" THEN asked - 1 ELSE asked
          /\ UNCHANGED faults
       \/ Fault /\ UNCHANGED <<announced, asked>>
    /\ UNCHANGED <<db, month, figures, row, files, tale, made>>

GenerateMonthlyReport(a) ==
    \/ GetFinancialMetrics(a)
    \/ ArchiveComplianceReport(a, "pdf", "csv") \/ ArchiveComplianceReport(a, "csv", "save")
    \/ CreateExecutiveReport(a) \/ Announce(a)

(* internal-bll stops and is started again. *)
Restart ==
    /\ Fault
    /\ maker' = [a \in Askers |-> Idle]
    /\ tale' = [m \in Months |-> [tale[m] EXCEPT
                    !.cut = @ \/ \E a \in Askers : At(a, m) /\ maker[a].at # "announce"]]
    /\ UNCHANGED <<db, month, figures, asked, row, files, announced, made>>

BooksChange ==
    /\ figures < MaxFigures /\ figures' = figures + 1
    /\ UNCHANGED <<db, month, asked, maker, row, files, announced, tale, faults, made>>
NextMonth ==
    /\ month + 1 \in Months /\ month' = month + 1
    /\ UNCHANGED <<db, figures, asked, maker, row, files, announced, tale, faults, made>>

ReportNext ==
    \/ StartExecutiveReportingWorker \/ HandleExecutiveReportTrigger
    \/ \E m \in Months : generateMonthlyReport(m) \/ TriggerMonthlyReport(m)
    \/ \E a \in Askers : GenerateMonthlyReport(a)
    \/ Restart \/ BooksChange \/ NextMonth

-----------------------------------------------------------------------------
(* What a download gives: the file, the contents of the row when Nextcloud *)
(* does not answer, and for a row without contents the present figures.    *)
DownloadWebDAVFile(m, f) == IF files[m][f].there THEN {files[m][f].of} ELSE {}
DownloadExecutiveReport(m, f, reached) ==
    IF reached /\ files[m][f].there THEN DownloadWebDAVFile(m, f)
    ELSE CASE row[m].is = "saved"  -> {row[m].of}
           [] row[m].is = "seeded" -> {[version |-> figures, whole |-> w] : w \in BOOLEAN}
           [] OTHER                -> {}

(* A report that was announced as archived is one: its row is there, and   *)
(* so are its files unless Nextcloud refused one of them.                  *)
AnnouncedIsArchived ==
    \A m \in announced :
        /\ row[m].is # "none"
        /\ \A f \in Formats \ tale[m].lost : files[m][f].there

(* The two files of a month were made from the same figures, unless an     *)
(* upload failed, a generation was cut off after its first upload, or two  *)
(* generations ran at once (the uploads of one fall between those of the   *)
(* other).                                                                 *)
FormatsAgree ==
    \A m \in Months :
        Quiet(m) /\ tale[m].lost = {} /\ ~tale[m].cut /\ ~tale[m].overlap =>
            files[m]["pdf"] = files[m]["csv"]

(* Whether a download comes from Nextcloud or from the row, it has the     *)
(* figures of the row, under the same conditions and if nobody made the    *)
(* report of a month whose row the database already had.                   *)
DownloadsAgree ==
    \A m \in Months :
        /\ Quiet(m) /\ row[m].is = "saved"
        /\ tale[m].lost = {} /\ ~tale[m].cut /\ ~tale[m].overlap
        /\ (db = "memory" /\ ~tale[m].kept) \/ tale[m].again = {}
        => \A f \in Formats, reached \in BOOLEAN :
               DownloadExecutiveReport(m, f, reached) = {row[m].of}

(* The hourly check makes a report that is already there only when its     *)
(* look at it failed or another generation was under way.                  *)
TickerCareful ==
    \A m \in Months :
        "ticker" \in tale[m].again => tale[m].blind \/ tale[m].overlap

ReportsExplained ==
    ReportTypeOK /\ AnnouncedIsArchived /\ FormatsAgree /\ DownloadsAgree /\ TickerCareful
=============================================================================
