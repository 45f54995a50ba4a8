\* The edit of a published listing is accepted, and the image of its form refused.
SPECIFICATION MediaSpec
CONSTANTS
  Images = {i1}
  Videos = {}
  MaximumImages = 1
  Nobody = Nobody
  MaxDeaths = 0
PROPERTY EditTakesImages
