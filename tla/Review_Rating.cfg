SPECIFICATION Spec
CONSTANTS
  None = None
  Ratings <- MCRatings
  MaxRatings = 1
PROPERTIES
  ReviewersRating
CHECK_DEADLOCK FALSE
