SPECIFICATION Spec
CONSTANTS
  library = library
  hostel = hostel
  none = none
  bo = bo
  book = book
  north = north
  south = south
  lotA = lotA
  p1 = p1
  Nothing = Nothing
  Gates = {north, south}
  Destinations = {library, hostel}
  Lots = {lotA}
  Queries = {none, bo, book}
  Short = {none}
  NoQuery = none
  Found <- MCFound
  NameOf <- MCNameOf
  Polls = {p1}
  MaxReports = 1
  MaxVersion = 2
  MaxInputs = 4
INVARIANTS
  TypeOK
  ResultsAreOfTheQuery
  DirectionsAreOneJourney
PROPERTY ReportStaysVisible
