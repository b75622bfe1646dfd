---------------------------- MODULE MCAuditArchiver ----------------------------
(***************************************************************************)
(* AuditArchiver on the schedule its comment gives, against the module's    *)
(* "Archived to S3 after AUDIT_S3_ARCHIVE_AFTER_DAYS".                      *)
(***************************************************************************)
EXTENDS AuditArchiver

\* Every row that is old enough is archived in the end.
OldRowsArchived ==
  \A x \in Rows : x \in DOMAIN created /\ created[x] < today - Age
                    ~> x \in archived
=============================================================================
