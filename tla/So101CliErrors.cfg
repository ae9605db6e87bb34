SPECIFICATION CliSpec
CONSTANTS
  NumServos = 2
  Positions = {4000}
  Calibrations <- MCCalibrations
PROPERTY
  ErrorMeansReleaseTried
