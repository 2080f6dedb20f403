------------------------------- MODULE Ejson -------------------------------
(***************************************************************************)
(* ejson.py: the wire form of dates and times, in milliseconds since the   *)
(* epoch or since midnight. A value of another type goes through as it is. *)
(***************************************************************************)
LOCAL INSTANCE Integers

\* Mutant of EncodeDate: milliseconds and seconds mixed up.
EncodeDateInSeconds(t) == t \div 1000

\* JSONEncoder.default of a datetime: timetuple() has whole seconds.
EncodeDate(t) == (t \div 1000) * 1000

\* object_hook of {"$date": ms}: fromtimestamp() keeps the milliseconds, and the
\* timedelta adds them once more.
DecodeDate(ms) == ms + (ms % 1000)

\* str() of a time writes the fraction of its second, if it has one.
EncodeTime(t) == [seconds |-> t \div 1000, fraction |-> t % 1000]

\* object_hook of {"$time": s}: int() takes hours, minutes and seconds, and raises
\* on a fraction, which becomes an EJSONDecodeError.
DecodeTime(wire, error) == IF wire.fraction = 0 THEN wire.seconds * 1000 ELSE error

=============================================================================
