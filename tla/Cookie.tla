-------------------------------- MODULE Cookie --------------------------------
(***************************************************************************)
(* The credentials of a client that has a CookiePath and no passphrase     *)
(* (retrieveCookie of rpcclient/infrastructure.go, readCookieFile): they   *)
(* are read from a file that the server writes anew whenever it starts,    *)
(* and kept.  The file is looked at again when the last look is Interval   *)
(* old, and read again when its modification time has changed.             *)
(*                                                                         *)
(* One goroutine of a client asks at a time; the server writes and removes *)
(* the file meanwhile, also between the Stat and the reading.  Time is     *)
(* counted in the units of modification times.                             *)
(***************************************************************************)
EXTENDS Naturals

CONSTANTS
  Cookies,   \* the lines user:password that servers write
  Interval,  \* 30 seconds
  MaxNow     \* bound: the last moment

ASSUME CookieAssumption ==
  /\ Interval \in Nat \ {0}
  /\ MaxNow \in Nat
  /\ "malformed" \notin Cookies

VARIABLES
  now,
  file,    \* [there, mod, text]; a text without a colon is "malformed"
  cpc,     \* where retrieveCookie is
  cookieLastCheckTime, cookieLastModTime, cookieLast, cookieLastErr,
  (* for the properties *)
  asked,   \* when retrieveCookie was called
  answer,  \* what it returned last
  since,   \* when the file was written or removed last
  readAt,  \* when it was read last
  failed   \* a call of the operating system has failed since then

cookieVars == <<now, file, cpc, cookieLastCheckTime, cookieLastModTime, cookieLast,
                cookieLastErr, asked, answer, since, readAt, failed>>

cached == <<cookieLastCheckTime, cookieLastModTime, cookieLast, cookieLastErr>>

\* Time zero is the zero value of time.Time.
CookieInit ==
  /\ now = 1
  /\ file = [there |-> FALSE, mod |-> 0, text |-> "malformed"]
  /\ cpc = "idle"
  /\ cookieLastCheckTime = 0
  /\ cookieLastModTime = 0
  /\ cookieLast = ""
  /\ cookieLastErr = ""
  /\ asked = 0
  /\ answer = ""
  /\ since = 0
  /\ readAt = 0
  /\ failed = FALSE

-------------------------------------------------------------------------------
(* The server and the clock.                                               *)

PassTime ==
  /\ now < MaxNow
  /\ now' = now + 1
  /\ UNCHANGED <<file, cpc, cached, asked, answer, since, readAt, failed>>

\* ioutil.WriteFile is two of these: the file is empty before it is written.
WriteCookie(text) ==
  /\ file' = [there |-> TRUE, mod |-> now, text |-> text]
  /\ since' = now
  /\ failed' = FALSE
  /\ UNCHANGED <<now, cpc, cached, asked, answer, readAt>>

RemoveCookie ==
  /\ file.there
  /\ file' = [file EXCEPT !.there = FALSE]
  /\ since' = now
  /\ failed' = FALSE
  /\ UNCHANGED <<now, cpc, cached, asked, answer, readAt>>

-------------------------------------------------------------------------------
(* retrieveCookie.                                                         *)

\* What a call returns: the error or the cookie.
Answer(err, cookie) == IF err # "" THEN err ELSE cookie

\* Mutant: an answer from the cache renews it.
UseCacheRenewing ==
  /\ cpc = "idle"
  /\ cookieLastCheckTime # 0 /\ now < cookieLastCheckTime + Interval
  /\ cookieLastCheckTime' = now
  /\ asked' = now
  /\ answer' = Answer(cookieLastErr, cookieLast)
  /\ UNCHANGED <<now, file, cpc, cookieLastModTime, cookieLast, cookieLastErr,
                 since, readAt, failed>>

UseCache ==
  /\ cpc = "idle"
  /\ cookieLastCheckTime # 0 /\ now < cookieLastCheckTime + Interval
  /\ asked' = now
  /\ answer' = Answer(cookieLastErr, cookieLast)
  /\ UNCHANGED <<now, file, cpc, cached, since, readAt, failed>>

Look ==
  /\ cpc = "idle"
  /\ cookieLastCheckTime = 0 \/ now >= cookieLastCheckTime + Interval
  /\ cookieLastCheckTime' = now
  /\ asked' = now
  /\ cpc' = "stat"
  /\ UNCHANGED <<now, file, cookieLastModTime, cookieLast, cookieLastErr, answer,
                 since, readAt, failed>>

\* An error of os.Stat is remembered; nothing but another reading clears it.
StatError ==
  /\ cpc = "stat"
  /\ failed' = (failed \/ file.there)
  /\ cookieLastErr' = "stat"
  /\ answer' = "stat"
  /\ cpc' = "idle"
  /\ UNCHANGED <<now, file, cookieLastCheckTime, cookieLastModTime, cookieLast, asked,
                 since, readAt>>

Stat ==
  /\ cpc = "stat" /\ file.there
  /\ \/ /\ file.mod # cookieLastModTime
        /\ cookieLastModTime' = file.mod
        /\ cpc' = "read"
        /\ UNCHANGED answer
     \/ /\ file.mod = cookieLastModTime
        /\ answer' = Answer(cookieLastErr, cookieLast)
        /\ cpc' = "idle"
        /\ UNCHANGED cookieLastModTime
  /\ UNCHANGED <<now, file, cookieLastCheckTime, cookieLast, cookieLastErr, asked,
                 since, readAt, failed>>

\* readCookieFile, and what becomes of its results.
Remember(cookie, err) ==
  /\ cookieLast' = cookie
  /\ cookieLastErr' = err
  /\ answer' = Answer(err, cookie)
  /\ readAt' = now
  /\ cpc' = "idle"
  /\ UNCHANGED <<now, file, cookieLastCheckTime, cookieLastModTime, asked, since>>

ReadError ==
  /\ cpc = "read"
  /\ failed' = (failed \/ file.there)
  /\ Remember("", "open")

readCookieFile ==
  /\ cpc = "read" /\ file.there
  /\ \/ file.text = "malformed" /\ Remember("", "malformed")
     \/ file.text # "malformed" /\ Remember(file.text, "")
  /\ UNCHANGED failed

CookieNext ==
  \/ PassTime
  \/ \E text \in Cookies \cup {"malformed"} : WriteCookie(text)
  \/ RemoveCookie
  \/ UseCache
  \/ Look
  \/ StatError
  \/ Stat
  \/ ReadError
  \/ readCookieFile

CookieSpec == CookieInit /\ [][CookieNext]_cookieVars

-------------------------------------------------------------------------------
(* Properties.                                                             *)

CookieTypeOK ==
  /\ now \in Nat /\ asked \in Nat /\ since \in Nat /\ readAt \in Nat
  /\ file.there \in BOOLEAN /\ file.mod \in Nat
  /\ file.text \in Cookies \cup {"malformed"}
  /\ cpc \in {"idle", "stat", "read"}
  /\ cookieLastCheckTime \in Nat /\ cookieLastModTime \in Nat
  /\ cookieLastErr \in {"", "stat", "open", "malformed"}

\* What the file says.
Truth == IF file.there THEN file.text ELSE "stat"

(***************************************************************************)
(* A client does not go on with the credentials of a server that has gone: *)
(* what retrieveCookie returns is what the file says, once it has said so  *)
(* for as long as an answer may be kept.  There are two exceptions.  The   *)
(* file was written again within the unit of modification times in which   *)
(* it had been read.  Or a call of the operating system failed although    *)
(* the file was there: the error is kept until the file is written again.  *)
(***************************************************************************)
CookieCurrent ==
  asked > 0 /\ cpc = "idle" /\ since + Interval <= asked
    => \/ answer = Truth
       \/ file.there /\ readAt = file.mod
       \/ failed

===============================================================================
