SPECIFICATION Spec
CONSTANTS
 Interval = 1
 Expires = 2
INVARIANTS LoggedOutStays
