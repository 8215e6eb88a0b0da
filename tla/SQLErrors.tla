----------------------------- MODULE SQLErrors -----------------------------
(***************************************************************************)
(* Classification of database driver errors into backend-agnostic error   *)
(* classes, as done by MapSQLError in tapdb/sqlerrors.go.  A driver error *)
(* is abstracted to the driver that raised it, its code, and whether its  *)
(* text carries connection details (one of the patterns of               *)
(* isConnectionError).  The message text itself is not modelled: the only *)
(* message-dependent branch, sqlite's "no such table", is a code of its   *)
(* own here.                                                              *)
(***************************************************************************)

\* Codes of the sqlite driver the classifier distinguishes; the last three
\* stand for every other code (extended busy codes included).
SqliteCodes == {"CONSTRAINT_UNIQUE", "CONSTRAINT_PRIMARYKEY", "BUSY",
                "LOCKED", "BUSY_SNAPSHOT", "ERROR_NO_SUCH_TABLE", "ERROR",
                "BUSY_TIMEOUT"}

\* SQLSTATE codes of the postgres driver the classifier distinguishes.
PostgresCodes == {"UniqueViolation", "SerializationFailure",
                  "DeadlockDetected", "UndefinedColumn", "UndefinedTable",
                  "OTHER"}

\* An error as returned by database/sql: a *sqlite.Error, a
\* *pgconn.PgError, or any other ("plain") error, such as a dial failure.
RawErrors ==
    [drv : {"sqlite"}, code : SqliteCodes, conn : BOOLEAN]
      \cup [drv : {"postgres"}, code : PostgresCodes, conn : BOOLEAN]
      \cup [drv : {"plain"}, code : {"NONE"}, conn : BOOLEAN]

\* The classes of error MapSQLError can return: the typed errors of
\* sqlerrors.go, the sanitized connection error, and an unclassified error.
ErrClasses == {"UniqueViolation", "Serialization", "Deadlock", "Schema",
               "Connection", "Unknown"}

\* sanitizeConnectionError: an error whose text matches a connection pattern
\* becomes an ErrDatabaseConnectionError; any other error passes unchanged.
sanitizeConnectionError(e) == IF e.conn THEN "Connection" ELSE "Unknown"

\* parseSqliteError: switch on the sqlite result code.
parseSqliteError(e) ==
    CASE e.code \in {"CONSTRAINT_UNIQUE", "CONSTRAINT_PRIMARYKEY"}
            -> "UniqueViolation"
      [] e.code = "BUSY" -> "Serialization"
      [] e.code \in {"LOCKED", "BUSY_SNAPSHOT"} -> "Deadlock"
      [] e.code = "ERROR_NO_SUCH_TABLE" -> "Schema"
      [] OTHER -> "Unknown"

\* parsePostgresError: switch on the SQLSTATE; the default case wraps the
\* sanitized error in "unknown postgres error", so a connection error is
\* still found by errors.As and stays an ErrDatabaseConnectionError.
parsePostgresError(e) ==
    CASE e.code = "UniqueViolation" -> "UniqueViolation"
      [] e.code = "SerializationFailure" -> "Serialization"
      [] e.code = "DeadlockDetected" -> "Deadlock"
      [] e.code \in {"UndefinedColumn", "UndefinedTable"} -> "Schema"
      [] OTHER -> sanitizeConnectionError(e)

\* MapSQLError: sqlite first, then postgres, else sanitize.
MapSQLError(e) ==
    CASE e.drv = "sqlite" -> parseSqliteError(e)
      [] e.drv = "postgres" -> parsePostgresError(e)
      [] OTHER -> sanitizeConnectionError(e)

IsSerializationError(cls) == cls = "Serialization"

IsDeadlockError(cls) == cls = "Deadlock"

\* IsSerializationOrDeadlockError: the errors ExecTx retries.
IsSerializationOrDeadlockError(cls) ==
    IsDeadlockError(cls) \/ IsSerializationError(cls)

=============================================================================
