\* Durations shorter than a year, three in a row; formats of every kind of header.
CONSTANTS
  SecondsPerMinute = 2
  SecondsPerHour = 4
  SecondsPerDay = 8
  StartYears <- MCStartYears
  Durations <- MCDurations
  MaxAdditions = 3
  Fraction <- MCFraction
  Formats <- MCFormats
SPECIFICATION ClockSpec
INVARIANT ConversionsAgree
INVARIANT ReceivedAsSent
PROPERTY SumsAgree
