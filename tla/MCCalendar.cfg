SPECIFICATION Spec
CONSTANTS
  Years = {1, 4, 99, 100, 399, 400, 401, 1899, 1900, 1969, 1970, 1999, 2000, 2001, 2023, 2024, 2026, 2100}
  Walk = 31
CHECK_DEADLOCK FALSE
INVARIANT DayAfterDay
